---- MODULE Spec2Model ----
(***************************************************************************)
(* SimpleCADAPI: the coordinate frames (CoordinateSystem), the stack of    *)
(* current frames (_current_cs) with its context manager                   *)
(* (LocalCoordinateSystem), the builders and transformations that read it  *)
(* and hand coordinates to the CadQuery kernel, and the operations on      *)
(* shapes carrying tags and metadata; Point, Sketch and Body objects.      *)
(*                                                                         *)
(* Reals are fixed-point numbers: the integer n stands for n / Scale.      *)
(* Every division and square root rounds to the nearest representable      *)
(* value, as the float arithmetic of the source does at its own precision. *)
(*                                                                         *)
(* Specifications:                                                         *)
(*   Spec         - the frame stack under blocks, direct calls, operations *)
(*   SpecFrame    - one CoordinateSystem object and the calls made on it   *)
(*   SpecOrigin   - each call made in two frames that differ in origin     *)
(*   SpecBuilders - a builder call and what it hands to the kernel         *)
(*   SpecShapes   - operations on tagged shapes, then set_tag              *)
(*   SpecThreads  - two threads, each in a block, on the one frame stack   *)
(*   SpecPoints   - Points made inside and outside blocks, and Sketches    *)
(*   SpecBodies   - Body objects and their ids                             *)
(***************************************************************************)
EXTENDS Integers, Sequences, FiniteSets, TLC

VARIABLES
    _current_cs, \* the list of frames, last entry is the current one
    blocks,     \* the open `with LocalCoordinateSystem(...)` blocks, innermost last
                \* (SpecThreads: the thread that pushed each entry)
    raw,        \* number of __enter__/__exit__ calls made directly, outside `with`
    op,         \* name of the last call made
    err,        \* outcome of the last call: "none" or the exception raised
    result,     \* value returned by the last call (NoValue when it raised)
    args,       \* arguments of the last call and, for a boolean operation,
                \* what the kernel returned to it
    frame,      \* the CoordinateSystem object under test (SpecFrame); the
                \* frame of the second run (SpecOrigin)
    kernel,     \* the calls the last call handed to the CadQuery kernel, in order
    shapes,     \* the shape objects: [kind, solids, _tags, _metadata], the last
                \* two being references into heap
    heap,       \* the set and dict objects that shapes refer to
    threads,    \* per thread: where it is in its `with` block, the frame it
                \* built and the frame get_current_cs() gave it
    pointObjs,  \* the Point objects made so far, each as [local_coords, cs]
                \* with a note of how it was made
    bodies,     \* the Body objects made so far: [cq_solid, id]
    _id_counter \* Body._id_counter

vars == <<_current_cs, blocks, raw, op, err, result, args, frame, kernel,
         shapes, heap, threads, pointObjs, bodies, _id_counter>>

----------------------------------------------------------------------------
(* Bounds *)

Scale == 512            \* fixed-point resolution: 1.0 is Scale
MaxDepth == 3           \* frames pushed above the bottom entry
MaxCoord == 1           \* largest coordinate of a local point (SpecFrame)
MaxCount == 2           \* largest count given to a pattern
MaxRaw == 1             \* direct __enter__/__exit__ calls made outside `with`

NoValue == <<>>

----------------------------------------------------------------------------
(* Fixed-point arithmetic *)

Abs(a) == IF a < 0 THEN -a ELSE a

\* a / b rounded to the nearest integer, b > 0
RoundDiv(a, b) ==
    IF a >= 0 THEN (2 * a + b) \div (2 * b)
              ELSE -((2 * (-a) + b) \div (2 * b))

\* product of two fixed-point numbers
Mul(a, b) == RoundDiv(a * b, Scale)

RECURSIVE SqrtSearch(_, _, _)
\* the largest r in lo..hi with r * r <= n
SqrtSearch(n, lo, hi) ==
    IF lo >= hi THEN lo
    ELSE LET mid == (lo + hi + 1) \div 2
         IN  IF mid * mid <= n THEN SqrtSearch(n, mid, hi)
                               ELSE SqrtSearch(n, lo, mid - 1)

\* square root rounded to the nearest integer
Sqrt(n) ==
    LET r == SqrtSearch(n, 0, 46340)
    IN  IF n - r * r > r THEN r + 1 ELSE r

\* np.array(t, dtype=float) of a tuple of whole numbers
ToFloat(t) == [i \in 1..3 |-> t[i] * Scale]

VecAdd(a, b) == [i \in 1..3 |-> a[i] + b[i]]
VecSub(a, b) == [i \in 1..3 |-> a[i] - b[i]]
VecScale(k, a) == [i \in 1..3 |-> Mul(k, a[i])]
Dot(a, b) == Mul(a[1], b[1]) + Mul(a[2], b[2]) + Mul(a[3], b[3])

\* np.cross
cross(a, b) ==
    << Mul(a[2], b[3]) - Mul(a[3], b[2]),
       Mul(a[3], b[1]) - Mul(a[1], b[3]),
       Mul(a[1], b[2]) - Mul(a[2], b[1]) >>

\* np.linalg.norm
norm(v) == Sqrt(v[1] * v[1] + v[2] * v[2] + v[3] * v[3])

----------------------------------------------------------------------------
(* CoordinateSystem *)

\* CoordinateSystem._normalize: raises on a vector whose norm is exactly 0
_normalize(v) ==
    LET n == norm(v)
    IN  IF n = 0 THEN [ok |-> FALSE, v |-> v]
        ELSE [ok |-> TRUE, v |-> [i \in 1..3 |-> RoundDiv(v[i] * Scale, n)]]

\* CoordinateSystem.__init__: [ok |-> FALSE] when a _normalize call raises
CoordinateSystem(origin, x_axis, y_axis) ==
    LET nx == _normalize(ToFloat(x_axis))
        ny == _normalize(ToFloat(y_axis))
        nz == _normalize(cross(nx.v, ny.v))
    IN  IF ~nx.ok \/ ~ny.ok \/ ~nz.ok
        THEN [ok |-> FALSE, cs |-> NoValue]
        ELSE [ok |-> TRUE,
              cs |-> [origin |-> ToFloat(origin), x_axis |-> nx.v,
                      y_axis |-> ny.v, z_axis |-> nz.v]]

WORLD_CS == CoordinateSystem(<<0, 0, 0>>, <<1, 0, 0>>, <<0, 1, 0>>).cs

\* transform_point without the origin: the vector transform used on a point
transform_point_no_origin(cs, point) ==
    VecAdd(VecScale(point[1], cs.x_axis),
           VecAdd(VecScale(point[2], cs.y_axis),
                  VecScale(point[3], cs.z_axis)))

\* CoordinateSystem.transform_point: local coordinates to global coordinates
transform_point(cs, point) ==
    VecAdd(cs.origin,
           VecAdd(VecScale(point[1], cs.x_axis),
                  VecAdd(VecScale(point[2], cs.y_axis),
                         VecScale(point[3], cs.z_axis))))

\* to_cq_coords taking the point as local to the frame
to_cq_coords_of_local(cs, point) ==
    LET g == VecAdd(cs.origin, point)
    IN  << g[1], g[3], -g[2] >>

\* CoordinateSystem.to_cq_coords: SimpleCAD (X, Y, Z) -> CADQuery (X, Z, -Y)
to_cq_coords(cs, point) == << point[1], point[3], -point[2] >>

\* from_cq_coords with the sign flip left out
from_cq_coords_no_flip(cs, point) == << point[1], point[3], point[2] >>

\* CoordinateSystem.from_cq_coords: CADQuery (X, Y, Z) -> SimpleCAD (X, -Z, Y)
from_cq_coords(cs, point) == << point[1], -point[3], point[2] >>

----------------------------------------------------------------------------
(* The stack of current frames and LocalCoordinateSystem *)

\* list.pop(): the list without its last entry
Pop(s) == SubSeq(s, 1, Len(s) - 1)

\* get_current_cs taking the last entry off the list
get_current_cs_pop(s) ==
    IF s = <<>> THEN [ok |-> FALSE, cs |-> NoValue, stack |-> s]
                ELSE [ok |-> TRUE, cs |-> s[Len(s)], stack |-> Pop(s)]

\* get_current_cs: reads _current_cs[-1] (IndexError on an empty list) and
\* leaves the list as it is; stack is the list after the call
get_current_cs(s) ==
    IF s = <<>> THEN [ok |-> FALSE, cs |-> NoValue, stack |-> s]
                ELSE [ok |-> TRUE, cs |-> s[Len(s)], stack |-> s]

\* LocalCoordinateSystem.__init__: the frame is built from the arguments as given
LocalCoordinateSystem(a) == CoordinateSystem(a.origin, a.x_axis, a.y_axis)

\* __enter__ placing the frame relative to the frame below it
LocalCoordinateSystem_enter_relative(s, cs) ==
    IF s = <<>> THEN Append(s, cs)
    ELSE LET parent == s[Len(s)]
         IN  Append(s, [origin |-> transform_point(parent, cs.origin),
                        x_axis |-> transform_point_no_origin(parent, cs.x_axis),
                        y_axis |-> transform_point_no_origin(parent, cs.y_axis),
                        z_axis |-> transform_point_no_origin(parent, cs.z_axis)])

\* LocalCoordinateSystem.__enter__: _current_cs.append(self.cs)
LocalCoordinateSystem_enter(s, cs) == Append(s, cs)

\* __exit__ popping only when the block is left without an exception
LocalCoordinateSystem_exit_unless_error(s, exc) == IF exc THEN s ELSE Pop(s)

\* LocalCoordinateSystem.__exit__: _current_cs.pop(), whatever exc_type is
LocalCoordinateSystem_exit(s, exc) == Pop(s)

----------------------------------------------------------------------------
(* Point, Line and Sketch: a Point is [local_coords, cs], cs being the      *)
(* frame object it refers to; a Line is the list of its control points      *)

\* Point.__init__: cs is the frame given, or the current frame if none is
\* given (explicit = FALSE)
Point(s, coords, explicit, cs) ==
    IF explicit THEN [ok |-> TRUE, stack |-> s,
                      point |-> [local_coords |-> coords, cs |-> cs]]
    ELSE LET g == get_current_cs(s)
         IN  [ok |-> g.ok, stack |-> g.stack,
              point |-> [local_coords |-> coords, cs |-> g.cs]]

\* global_coords resolved through the frame that is current when it is read
Point_global_coords_current(s, point) ==
    transform_point(get_current_cs(s).cs, point.local_coords)

\* Point.global_coords: self.cs.transform_point(self.local_coords)
Point_global_coords(s, point) == transform_point(point.cs, point.local_coords)

\* np.allclose(a, b, atol=1e-6), with numpy's default rtol=1e-5:
\* |a - b| <= atol + rtol * |b| in every coordinate
allclose(a, b) ==
    \A i \in 1..3 :
        Abs(a[i] - b[i]) * 100000 <= (Scale \div 10) + Abs(b[i])

\* Sketch._is_closed: the first point of the first line against the last
\* point of the last line
_is_closed(s, lines) ==
    IF lines = <<>> THEN FALSE
    ELSE LET last == lines[Len(lines)]
             start == Point_global_coords(s, lines[1][1])
             end == Point_global_coords(s, last[Len(last)])
         IN  allclose(start, end)

\* Sketch.__init__: raises ValueError unless _is_closed (_is_planar is
\* always True); cs is the frame of the first point
Sketch(s, lines) ==
    LET cs == IF lines # <<>> /\ lines[1] # <<>> THEN lines[1][1].cs
              ELSE get_current_cs(s).cs
    IN  IF ~_is_closed(s, lines) THEN [ok |-> FALSE, cs |-> NoValue]
        ELSE [ok |-> TRUE, cs |-> cs]

----------------------------------------------------------------------------
(* Body *)

\* Body.__init__ with the increment of the counter left out
Body_without_increment(counter, cq_solid) ==
    [body |-> [cq_solid |-> cq_solid, id |-> counter],
     _id_counter |-> counter]

\* Body.__init__, counter being Body._id_counter before the call:
\* self.id = Body._id_counter; Body._id_counter += 1
Body(counter, cq_solid) ==
    [body |-> [cq_solid |-> cq_solid, id |-> counter],
     _id_counter |-> counter + 1]

----------------------------------------------------------------------------
(* Geometry operations, as far as they touch frames: what each resolves    *)
(* through the current frame and hands to the kernel                       *)

\* translate_shape: the vector is resolved through the current frame
translate_shape(s, vector) ==
    LET g == get_current_cs(s)
    IN  IF ~g.ok THEN [ok |-> FALSE, vec |-> NoValue, stack |-> g.stack]
        ELSE [ok |-> TRUE,
              vec |-> VecSub(transform_point(g.cs, vector), g.cs.origin),
              stack |-> g.stack]

RECURSIVE PatternCopies(_, _, _, _, _)
\* the loop of linear_pattern_rcompound: copy i is translate_shape(shape, offset)
\* with offset = direction_vec * (spacing * i), for i = i..count-1
PatternCopies(s, direction_vec, spacing, i, count) ==
    IF i >= count THEN [ok |-> TRUE, vecs |-> <<>>, stack |-> s]
    ELSE LET t == translate_shape(s, VecScale(spacing * i, direction_vec))
         IN  IF ~t.ok THEN [ok |-> FALSE, vecs |-> <<>>, stack |-> t.stack]
             ELSE LET rest == PatternCopies(t.stack, direction_vec, spacing,
                                            i + 1, count)
                  IN  [ok |-> rest.ok, vecs |-> <<t.vec>> \o rest.vecs,
                       stack |-> rest.stack]

\* linear_pattern_rcompound: the translation each copy is given
linear_pattern_rcompound(s, direction, count, spacing) ==
    IF count <= 0 \/ spacing <= 0
    THEN [ok |-> FALSE, vecs |-> <<>>, stack |-> s]
    ELSE LET g == get_current_cs(s)
         IN  IF ~g.ok THEN [ok |-> FALSE, vecs |-> <<>>, stack |-> g.stack]
             ELSE LET global_direction ==
                          VecSub(transform_point(g.cs, direction), g.cs.origin)
                      direction_vec == _normalize(global_direction)
                  IN  IF ~direction_vec.ok
                      THEN [ok |-> FALSE, vecs |-> <<>>, stack |-> g.stack]
                      ELSE PatternCopies(g.stack, direction_vec.v, spacing,
                                         0, count)

----------------------------------------------------------------------------
(* Builders and transformations: each returns                               *)
(*   ok      - FALSE when the function's own code raised                    *)
(*   points  - the point arguments as resolved through the current frame    *)
(*   vectors - the vector arguments as resolved through the current frame   *)
(*   kernel  - the calls handed to the CadQuery kernel, in order            *)
(*   stack   - _current_cs after the call                                   *)

\* one call into the kernel: its name, lengths, points and vectors
KernelCall(fn, dims, points, vectors) ==
    [fn |-> fn, dims |-> dims, points |-> points, vectors |-> vectors]

\* the function raised before it handed anything to the kernel
Raised(s) ==
    [ok |-> FALSE, points |-> <<>>, vectors |-> <<>>, kernel |-> <<>>,
     stack |-> s]

\* the function ran through, having made the calls in kernel
Returned(points, vectors, kernel_calls, s) ==
    [ok |-> TRUE, points |-> points, vectors |-> vectors,
     kernel |-> kernel_calls, stack |-> s]

\* a coordinate that is not a number (0.0 / 0.0)
NaN == <<>>

\* make_point_rvertex: cq.Vertex.makeVertex(*global_point)
make_point_rvertex(s, point) ==
    LET g == get_current_cs(s)
    IN  IF ~g.ok THEN Raised(g.stack)
        ELSE LET global_point == transform_point(g.cs, point)
             IN  Returned(<<global_point>>, <<>>,
                     <<KernelCall("cq.Vertex.makeVertex", <<>>,
                                  <<global_point>>, <<>>)>>,
                     g.stack)

\* make_circle_redge: cq.Edge.makeCircle(radius, center_vec, normal_vec)
make_circle_redge(s, center, radius, normal) ==
    IF radius <= 0 THEN Raised(s)
    ELSE LET g == get_current_cs(s)
         IN  IF ~g.ok THEN Raised(g.stack)
             ELSE LET center_global == transform_point(g.cs, center)
                      normal_global ==
                          VecSub(transform_point(g.cs, normal), g.cs.origin)
                  IN  Returned(<<center_global>>, <<normal_global>>,
                          <<KernelCall("cq.Edge.makeCircle", <<radius>>,
                                       <<center_global>>, <<normal_global>>)>>,
                          g.stack)

\* the four cq.Edge.makeLine calls and the cq.Wire.assembleEdges call of
\* make_rectangle_rwire, for corner points p[1..4]
RectangleEdges(p) ==
    << KernelCall("cq.Edge.makeLine", <<>>, <<p[1], p[2]>>, <<>>),
       KernelCall("cq.Edge.makeLine", <<>>, <<p[2], p[3]>>, <<>>),
       KernelCall("cq.Edge.makeLine", <<>>, <<p[3], p[4]>>, <<>>),
       KernelCall("cq.Edge.makeLine", <<>>, <<p[4], p[1]>>, <<>>),
       KernelCall("cq.Wire.assembleEdges", <<>>, <<>>, <<>>) >>

\* make_rectangle_rwire: the corners are computed in world coordinates from
\* the resolved centre and normal; a zero normal divides 0.0 by 0.0
make_rectangle_rwire(s, center, width, height, normal) ==
    IF width <= 0 \/ height <= 0 THEN Raised(s)
    ELSE LET g == get_current_cs(s)
         IN  IF ~g.ok THEN Raised(g.stack)
             ELSE
             LET center_global == transform_point(g.cs, center)
                 normal_global ==
                     VecSub(transform_point(g.cs, normal), g.cs.origin)
             IN  IF norm(normal_global) = 0
                 THEN Returned(<<center_global>>, <<normal_global>>,
                          RectangleEdges(<<NaN, NaN, NaN, NaN>>), g.stack)
                 ELSE
                 LET normal_vec == _normalize(normal_global).v
                     ref_vec == IF Abs(normal_vec[3]) * 10 > 9 * Scale
                                THEN ToFloat(<<1, 0, 0>>)
                                ELSE ToFloat(<<0, 0, 1>>)
                     local_x == _normalize(cross(normal_vec, ref_vec)).v
                     local_y == _normalize(cross(normal_vec, local_x)).v
                     half_w == RoundDiv(width, 2)
                     half_h == RoundDiv(height, 2)
                     corner(a, b) ==
                         VecAdd(center_global,
                                VecAdd(VecScale(a, local_x), VecScale(b, local_y)))
                 IN  Returned(<<center_global>>, <<normal_global>>,
                         RectangleEdges(<< corner(-half_w, -half_h),
                                           corner(half_w, -half_h),
                                           corner(half_w, half_h),
                                           corner(-half_w, half_h) >>),
                         g.stack)

\* make_box_rsolid: cq.Solid.makeBox(width, height, depth, Vector(*center_global))
make_box_rsolid(s, center, width, height, depth) ==
    IF width <= 0 \/ height <= 0 \/ depth <= 0 THEN Raised(s)
    ELSE LET g == get_current_cs(s)
         IN  IF ~g.ok THEN Raised(g.stack)
             ELSE LET center_global == transform_point(g.cs, center)
                  IN  Returned(<<center_global>>, <<>>,
                          <<KernelCall("cq.Solid.makeBox",
                                       <<width, height, depth>>,
                                       <<center_global>>, <<>>)>>,
                          g.stack)

\* make_cylinder_rsolid: cq.Solid.makeCylinder(radius, height, center_vec, axis_vec)
make_cylinder_rsolid(s, center, radius, height, axis) ==
    IF radius <= 0 \/ height <= 0 THEN Raised(s)
    ELSE LET g == get_current_cs(s)
         IN  IF ~g.ok THEN Raised(g.stack)
             ELSE LET center_global == transform_point(g.cs, center)
                      axis_global ==
                          VecSub(transform_point(g.cs, axis), g.cs.origin)
                  IN  Returned(<<center_global>>, <<axis_global>>,
                          <<KernelCall("cq.Solid.makeCylinder",
                                       <<radius, height>>,
                                       <<center_global>>, <<axis_global>>)>>,
                          g.stack)

\* make_sphere_rsolid: a workplane moved to center_global, then .sphere(radius)
make_sphere_rsolid(s, center, radius) ==
    IF radius <= 0 THEN Raised(s)
    ELSE LET g == get_current_cs(s)
         IN  IF ~g.ok THEN Raised(g.stack)
             ELSE LET center_global == transform_point(g.cs, center)
                  IN  Returned(<<center_global>>, <<>>,
                          <<KernelCall("cq.Workplane.sphere", <<radius>>,
                                       <<center_global>>, <<>>)>>,
                          g.stack)

\* make_helix_redge: pitch, height and radius are checked, then
\* cq.Wire.makeHelix(pitch, height, radius, center_vec, dir_vec)
make_helix_redge(s, pitch, height, radius, center, dir) ==
    IF pitch <= 0 \/ height <= 0 \/ radius <= 0 THEN Raised(s)
    ELSE LET g == get_current_cs(s)
         IN  IF ~g.ok THEN Raised(g.stack)
             ELSE LET global_center == transform_point(g.cs, center)
                      global_dir ==
                          VecSub(transform_point(g.cs, dir), g.cs.origin)
                  IN  Returned(<<global_center>>, <<global_dir>>,
                          <<KernelCall("cq.Wire.makeHelix",
                                       <<pitch, height, radius>>,
                                       <<global_center>>, <<global_dir>>)>>,
                          g.stack)

\* make_helix_rwire: cq.Wire.makeHelix(pitch, height, radius, center_vec,
\* dir_vec) with the arguments as given
make_helix_rwire(s, pitch, height, radius, center, dir) ==
    LET g == get_current_cs(s)
    IN  IF ~g.ok THEN Raised(g.stack)
        ELSE LET global_center == transform_point(g.cs, center)
                 global_dir == VecSub(transform_point(g.cs, dir), g.cs.origin)
             IN  Returned(<<global_center>>, <<global_dir>>,
                     <<KernelCall("cq.Wire.makeHelix",
                                  <<pitch, height, radius>>,
                                  <<global_center>>, <<global_dir>>)>>,
                     g.stack)

\* rotate_shape with the axis resolved as a point of the frame
rotate_shape_axis_as_point(s, angle, axis, origin) ==
    LET g == get_current_cs(s)
    IN  IF ~g.ok THEN Raised(g.stack)
        ELSE LET global_axis == transform_point(g.cs, axis)
                 global_origin == transform_point(g.cs, origin)
             IN  Returned(<<global_origin>>, <<global_axis>>,
                     <<KernelCall("rotate", <<angle>>, <<global_origin>>,
                                  <<global_axis>>)>>,
                     g.stack)

\* rotate_shape: shape.cq_*.rotate(origin_vec, axis_vec, angle)
rotate_shape(s, angle, axis, origin) ==
    LET g == get_current_cs(s)
    IN  IF ~g.ok THEN Raised(g.stack)
        ELSE LET global_axis == VecSub(transform_point(g.cs, axis), g.cs.origin)
                 global_origin == transform_point(g.cs, origin)
             IN  Returned(<<global_origin>>, <<global_axis>>,
                     <<KernelCall("rotate", <<angle>>, <<global_origin>>,
                                  <<global_axis>>)>>,
                     g.stack)

\* extrude_rsolid of a profile [kind, closed]: the direction is resolved,
\* normalised (a zero vector has no direction: the kernel's Vector raises)
\* and scaled by distance; a Wire has to be closed
extrude_rsolid(s, profile, direction, distance) ==
    IF distance <= 0 THEN Raised(s)
    ELSE LET g == get_current_cs(s)
         IN  IF ~g.ok THEN Raised(g.stack)
             ELSE
             LET global_direction ==
                     VecSub(transform_point(g.cs, direction), g.cs.origin)
                 normalized == _normalize(global_direction)
                 direction_vec == VecScale(distance, normalized.v)
             IN  IF ~normalized.ok THEN Raised(g.stack)
                 ELSE IF profile.kind = "Wire" /\ ~profile.closed
                 THEN Raised(g.stack)
                 ELSE IF profile.kind = "Wire"
                 THEN Returned(<<>>, <<global_direction>>,
                          << KernelCall("cq.Face.makeFromWires", <<>>, <<>>, <<>>),
                             KernelCall("cq.Solid.extrudeLinear", <<>>, <<>>,
                                        <<direction_vec>>) >>,
                          g.stack)
                 ELSE IF profile.kind = "Face"
                 THEN Returned(<<>>, <<global_direction>>,
                          << KernelCall("cq.Solid.extrudeLinear", <<>>, <<>>,
                                        <<direction_vec>>) >>,
                          g.stack)
                 ELSE Raised(g.stack)

\* revolve_rsolid of a profile [kind, closed]: axis and origin are resolved
\* and not used again; the face is revolved by
\* wp.revolve(angleDegrees=angle * 180 / np.pi)
revolve_rsolid(s, profile, axis, angle, origin) ==
    IF angle <= 0 THEN Raised(s)
    ELSE LET g == get_current_cs(s)
         IN  IF ~g.ok THEN Raised(g.stack)
             ELSE
             LET global_axis == VecSub(transform_point(g.cs, axis), g.cs.origin)
                 global_origin == transform_point(g.cs, origin)
                 pi == RoundDiv(31416 * Scale, 10000)
                 angle_degrees == RoundDiv(angle * 180 * Scale, pi)
                 revolve == KernelCall("cq.Workplane.revolve",
                                       <<angle_degrees>>, <<>>, <<>>)
             IN  IF profile.kind = "Wire" /\ ~profile.closed
                 THEN Raised(g.stack)
                 ELSE IF profile.kind = "Wire"
                 THEN Returned(<<global_origin>>, <<global_axis>>,
                          << KernelCall("cq.Face.makeFromWires", <<>>, <<>>, <<>>),
                             revolve >>,
                          g.stack)
                 ELSE IF profile.kind = "Face"
                 THEN Returned(<<global_origin>>, <<global_axis>>, <<revolve>>,
                               g.stack)
                 ELSE Raised(g.stack)

\* CoordinateSystem.transform_vector: the linear combination of the axes,
\* without the origin
transform_vector(cs, vector) ==
    VecAdd(VecScale(vector[1], cs.x_axis),
           VecAdd(VecScale(vector[2], cs.y_axis),
                  VecScale(vector[3], cs.z_axis)))

\* np.argmax(np.abs(v)): the first index of the largest absolute value
ArgMax(v) ==
    IF Abs(v[1]) >= Abs(v[2]) /\ Abs(v[1]) >= Abs(v[3]) THEN 0
    ELSE IF Abs(v[2]) >= Abs(v[3]) THEN 1
    ELSE 2

\* mirror_shape of a shape of the given kind: origin and normal are resolved,
\* re-ordered to (y, z, x), and the Solid is mirrored about the axis-aligned
\* plane picked from the largest component of the normal
mirror_shape(s, kind, plane_origin, plane_normal) ==
    LET g == get_current_cs(s)
    IN  IF ~g.ok THEN Raised(g.stack)
        ELSE
        LET global_origin == transform_point(g.cs, plane_origin)
            global_normal == transform_vector(g.cs, plane_normal)
            cq_origin == <<global_origin[2], global_origin[3], global_origin[1]>>
            cq_normal == <<global_normal[2], global_normal[3], global_normal[1]>>
            max_idx == ArgMax(cq_normal)
            mirror_plane_str == IF max_idx = 0 THEN "YZ"
                                ELSE IF max_idx = 1 THEN "XZ"
                                ELSE "XY"
            plane == KernelCall("Plane", <<>>, <<cq_origin>>, <<cq_normal>>)
        IN  IF norm(global_normal) = 0 THEN Raised(g.stack)
            ELSE IF kind # "Solid"
            THEN [ok |-> FALSE, points |-> <<global_origin>>,
                  vectors |-> <<global_normal>>, kernel |-> <<plane>>,
                  stack |-> g.stack]
            ELSE Returned(<<global_origin>>, <<global_normal>>,
                     << plane,
                        KernelCall("cq.Workplane.mirror", <<mirror_plane_str>>,
                                   <<cq_origin>>, <<>>) >>,
                     g.stack)

RECURSIVE RadialCopies(_, _, _, _, _, _)
\* the loop of radial_pattern_rcompound: copy i is
\* rotate_shape(shape, angle_step * i, axis, center), for i = i..count-1
RadialCopies(s, angle_step, axis, center, i, count) ==
    IF i >= count THEN Returned(<<>>, <<>>, <<>>, s)
    ELSE LET rotation_angle == angle_step * i
             rotated_shape == rotate_shape(s, rotation_angle, axis, center)
         IN  IF ~rotated_shape.ok THEN Raised(rotated_shape.stack)
             ELSE LET rest == RadialCopies(rotated_shape.stack, angle_step,
                                           axis, center, i + 1, count)
                  IN  [ok |-> rest.ok,
                       points |-> rotated_shape.points \o rest.points,
                       vectors |-> rotated_shape.vectors \o rest.vectors,
                       kernel |-> rotated_shape.kernel \o rest.kernel,
                       stack |-> rest.stack]

\* the kinds of shape that the patterns can put into a compound
PatternKinds == {"Vertex", "Edge", "Wire", "Face", "Shell", "Solid"}

\* radial_pattern_rcompound with the total angle spread over count - 1
\* steps, the last copy being rotated by the total angle
radial_pattern_rcompound_inclusive(s, kind, center, axis, count, angle) ==
    IF count <= 0 \/ angle <= 0 THEN Raised(s)
    ELSE LET angle_step == IF count > 1 THEN RoundDiv(angle, count - 1)
                                        ELSE angle
             copies == RadialCopies(s, angle_step, axis, center, 0, count)
         IN  IF ~copies.ok THEN copies
             ELSE IF kind \notin PatternKinds
             THEN [copies EXCEPT !.ok = FALSE]
             ELSE [copies EXCEPT !.kernel =
                      @ \o <<KernelCall("cq.Compound.makeCompound",
                                        <<Len(copies.kernel)>>, <<>>, <<>>)>>]

\* radial_pattern_rcompound of a shape of the given kind: count copies, made
\* by rotate_shape in steps of angle / count, are put into one compound
radial_pattern_rcompound(s, kind, center, axis, count, angle) ==
    IF count <= 0 \/ angle <= 0 THEN Raised(s)
    ELSE LET angle_step == RoundDiv(angle, count)
             copies == RadialCopies(s, angle_step, axis, center, 0, count)
         IN  IF ~copies.ok THEN copies
             ELSE IF kind \notin PatternKinds
             THEN [copies EXCEPT !.ok = FALSE]
             ELSE [copies EXCEPT !.kernel =
                      @ \o <<KernelCall("cq.Compound.makeCompound",
                                        <<Len(copies.kernel)>>, <<>>, <<>>)>>]

----------------------------------------------------------------------------
(* Shape wrappers: a shape is [kind, cq, _tags, _metadata]; cq is the       *)
(* kernel object it wraps, _tags and _metadata refer to a set object and a  *)
(* dict object of the heap [sets, dicts]. A store st is [shapes, heap].     *)

\* the empty dict {}
EmptyDict == [k \in {} |-> 0]

\* {**m1, **m2}
DictMerge(m1, m2) ==
    [k \in (DOMAIN m1) \cup (DOMAIN m2) |->
        IF k \in DOMAIN m2 THEN m2[k] ELSE m1[k]]

\* a kernel object: its type, its identity, the solids it contains and, for
\* a wire, whether it is closed
Handle(type, id, parts, closed) ==
    [type |-> type, id |-> id, parts |-> parts, closed |-> closed]

\* cq_result.Solids(): the solids in a kernel object, in the kernel's order
Solids(cq) ==
    [i \in 1..Len(cq.parts) |-> Handle("Solid", cq.parts[i], <<cq.parts[i]>>, TRUE)]

\* shape._tags and shape._metadata, read through the references
TagsOf(st, i) == st.heap.sets[st.shapes[i]._tags]
MetadataOf(st, i) == st.heap.dicts[st.shapes[i]._metadata]

\* Vertex(cq), Edge(cq), ..., Solid(cq): a new wrapper owning cq, with a
\* set of tags and a metadata dict of its own, both empty
NewShape(st, kind, cq) ==
    [shapes |-> Append(st.shapes,
                    [kind |-> kind, cq |-> cq,
                     _tags |-> Len(st.heap.sets) + 1,
                     _metadata |-> Len(st.heap.dicts) + 1]),
     heap |-> [sets |-> Append(st.heap.sets, {}),
               dicts |-> Append(st.heap.dicts, EmptyDict)]]

\* shape.add_tag(tag): the tag is added to the shape's own set object
add_tag(st, i, tag) ==
    [shapes |-> st.shapes,
     heap |-> [st.heap EXCEPT !.sets[st.shapes[i]._tags] = @ \cup {tag}]]

\* shape._tags = tags, where tags is a set object just made
SetTags(st, i, tags) ==
    [shapes |-> [st.shapes EXCEPT ![i]._tags = Len(st.heap.sets) + 1],
     heap |-> [st.heap EXCEPT !.sets = Append(@, tags)]]

\* shape._metadata = metadata, where metadata is a dict object just made
SetMetadata(st, i, metadata) ==
    [shapes |-> [st.shapes EXCEPT ![i]._metadata = Len(st.heap.dicts) + 1],
     heap |-> [st.heap EXCEPT !.dicts = Append(@, metadata)]]

\* new_shape._tags = shape._tags; new_shape._metadata = shape._metadata:
\* both shapes refer to the same objects
copy_tags_and_metadata_shared(st, new_shape, shape) ==
    [shapes |-> [st.shapes EXCEPT
                    ![new_shape]._tags = st.shapes[shape]._tags,
                    ![new_shape]._metadata = st.shapes[shape]._metadata],
     heap |-> st.heap]

\* new_shape._tags = shape._tags.copy()
\* new_shape._metadata = shape._metadata.copy()
copy_tags_and_metadata(st, new_shape, shape) ==
    SetMetadata(SetTags(st, new_shape, TagsOf(st, shape)),
                new_shape, MetadataOf(st, shape))

\* what a shape operation gives back: ok is FALSE when its own code raised;
\* kernel lists the kernel calls made; st is the store afterwards, the
\* returned shape being its last one
Failed(st, kernel_calls) ==
    [ok |-> FALSE, kernel |-> kernel_calls, shapes |-> st.shapes,
     heap |-> st.heap]
Done(st, kernel_calls) ==
    [ok |-> TRUE, kernel |-> kernel_calls, shapes |-> st.shapes,
     heap |-> st.heap]

\* the kinds of shape that translate_shape and rotate_shape dispatch on
ShapeKinds == {"Vertex", "Edge", "Wire", "Face", "Shell", "Solid", "Compound"}

\* the isinstance chain of translate_shape and rotate_shape: the kernel
\* object is moved by the kernel `method`, wrapped in a shape of the same
\* kind, and tags and metadata are copied
MovedCopy(st, shape, method, call) ==
    IF st.shapes[shape].kind \notin ShapeKinds THEN Failed(st, <<>>)
    ELSE LET cq == st.shapes[shape].cq
             new_cq_shape == Handle(cq.type, method, cq.parts, cq.closed)
             w == NewShape(st, st.shapes[shape].kind, new_cq_shape)
         IN  Done(copy_tags_and_metadata(w, Len(w.shapes), shape), <<call>>)

\* cq_result.Solids()[0] if the kernel result has solids, else the result itself
FirstSolid(cq_result) ==
    IF Solids(cq_result) # <<>> THEN Solids(cq_result)[1] ELSE cq_result

\* union_rsolid with the metadata of the first solid winning
union_rsolid_first_wins(st, solid1, solid2, returned) ==
    LET w == NewShape(st, "Solid", FirstSolid(returned))
        wrapped == Len(w.shapes)
    IN  Done(SetMetadata(SetTags(w, wrapped,
                                 TagsOf(st, solid1) \cup TagsOf(st, solid2)),
                         wrapped,
                         DictMerge(MetadataOf(st, solid2),
                                   MetadataOf(st, solid1))),
             <<KernelCall("fuse", <<>>, <<>>, <<>>)>>)

\* union_rsolid, the kernel having returned `returned` for fuse
union_rsolid(st, solid1, solid2, returned) ==
    LET w == NewShape(st, "Solid", FirstSolid(returned))
        wrapped == Len(w.shapes)
    IN  Done(SetMetadata(SetTags(w, wrapped,
                                 TagsOf(st, solid1) \cup TagsOf(st, solid2)),
                         wrapped,
                         DictMerge(MetadataOf(st, solid1),
                                   MetadataOf(st, solid2))),
             <<KernelCall("fuse", <<>>, <<>>, <<>>)>>)

\* cut_rsolid, the kernel having returned `returned` for cut
cut_rsolid(st, solid1, solid2, returned) ==
    LET w == NewShape(st, "Solid", FirstSolid(returned))
    IN  Done(copy_tags_and_metadata(w, Len(w.shapes), solid1),
             <<KernelCall("cut", <<>>, <<>>, <<>>)>>)

\* intersect_rsolid keeping the tags of either solid
intersect_rsolid_any_tag(st, solid1, solid2, returned) ==
    LET w == NewShape(st, "Solid", FirstSolid(returned))
        wrapped == Len(w.shapes)
    IN  Done(SetMetadata(SetTags(w, wrapped,
                                 TagsOf(st, solid1) \cup TagsOf(st, solid2)),
                         wrapped,
                         DictMerge(MetadataOf(st, solid1),
                                   MetadataOf(st, solid2))),
             <<KernelCall("intersect", <<>>, <<>>, <<>>)>>)

\* intersect_rsolid, the kernel having returned `returned` for intersect
intersect_rsolid(st, solid1, solid2, returned) ==
    LET w == NewShape(st, "Solid", FirstSolid(returned))
        wrapped == Len(w.shapes)
    IN  Done(SetMetadata(SetTags(w, wrapped,
                                 TagsOf(st, solid1) \cap TagsOf(st, solid2)),
                         wrapped,
                         DictMerge(MetadataOf(st, solid1),
                                   MetadataOf(st, solid2))),
             <<KernelCall("intersect", <<>>, <<>>, <<>>)>>)

\* fillet_rsolid: only the radius is checked; edges are handed to the kernel
\* as given
fillet_rsolid(st, solid, edges, radius) ==
    IF radius <= 0 THEN Failed(st, <<>>)
    ELSE LET cq_result == Handle("Solid", "fillet", <<"fillet">>, TRUE)
             w == NewShape(st, "Solid", cq_result)
         IN  Done(copy_tags_and_metadata(w, Len(w.shapes), solid),
                  <<KernelCall("fillet", <<radius>>, <<>>, <<>>)>>)

\* chamfer_rsolid: only the distance is checked
chamfer_rsolid(st, solid, edges, distance) ==
    IF distance <= 0 THEN Failed(st, <<>>)
    ELSE LET cq_result == Handle("Solid", "chamfer", <<"chamfer">>, TRUE)
             w == NewShape(st, "Solid", cq_result)
         IN  Done(copy_tags_and_metadata(w, Len(w.shapes), solid),
                  <<KernelCall("chamfer", <<distance>>, <<>>, <<>>)>>)

RECURSIVE AllTags(_, _)
\* all_tags.update(profile._tags) for each profile
AllTags(st, profiles) ==
    IF profiles = <<>> THEN {}
    ELSE TagsOf(st, Head(profiles)) \cup AllTags(st, Tail(profiles))

RECURSIVE AllMetadata(_, _, _)
\* all_metadata.update(profile._metadata) for each profile, in order
AllMetadata(st, profiles, all_metadata) ==
    IF profiles = <<>> THEN all_metadata
    ELSE AllMetadata(st, Tail(profiles),
                     DictMerge(all_metadata, MetadataOf(st, Head(profiles))))

\* loft_rsolid: only the number of profiles is checked
loft_rsolid(st, profiles) ==
    IF Len(profiles) < 2 THEN Failed(st, <<>>)
    ELSE LET cq_result == Handle("Solid", "makeLoft", <<"makeLoft">>, TRUE)
             w == NewShape(st, "Solid", cq_result)
             wrapped == Len(w.shapes)
         IN  Done(SetMetadata(SetTags(w, wrapped, AllTags(st, profiles)),
                              wrapped, AllMetadata(st, profiles, EmptyDict)),
                  <<KernelCall("cq.Solid.makeLoft", <<>>, <<>>, <<>>)>>)

RECURSIVE ExportedStl(_, _)
\* the loop of export_stl: wp.add for a Solid, a Face or a Shell and for the
\* solids of a Compound; a shape of another kind falls through the chain
ExportedStl(st, exported) ==
    IF exported = <<>> THEN <<>>
    ELSE LET shape == st.shapes[Head(exported)]
             solids == Solids(shape.cq)
             added ==
                 IF shape.kind \in {"Solid", "Face", "Shell"}
                 THEN <<KernelCall("cq.Workplane.add", <<shape.cq.id>>,
                                   <<>>, <<>>)>>
                 ELSE IF shape.kind = "Compound"
                 THEN [i \in 1..Len(solids) |->
                          KernelCall("cq.Workplane.add", <<solids[i].id>>,
                                     <<>>, <<>>)]
                 ELSE <<>>
         IN  added \o ExportedStl(st, Tail(exported))

\* export_stl(shapes, filename): the workplane is filled, then exported
export_stl(st, exported) ==
    Done(st, ExportedStl(st, exported)
             \o <<KernelCall("cq.exporters.export", <<>>, <<>>, <<>>)>>)

----------------------------------------------------------------------------
(* Inputs *)

\* local points and vectors given to the operations of Spec
Points == {<<0, 0, 0>>, <<1, 0, 0>>, <<1, 1, 1>>, <<0, 2, -1>>}

\* local points given to the calls of SpecFrame
SignedCoords == (-MaxCoord)..MaxCoord
SignedPoints ==
    {<<a, b, c>> : a \in SignedCoords, b \in SignedCoords, c \in SignedCoords}

\* arguments given to LocalCoordinateSystem: a shifted frame, a frame turned
\* about z, and a pair of parallel axes
LcsArgs ==
    { [origin |-> <<0, 0, 1>>, x_axis |-> <<1, 0, 0>>, y_axis |-> <<0, 1, 0>>],
      [origin |-> <<1, 2, 0>>, x_axis |-> <<0, 1, 0>>, y_axis |-> <<-1, 0, 0>>],
      [origin |-> <<0, 0, 0>>, x_axis |-> <<1, 0, 0>>, y_axis |-> <<2, 0, 0>>] }

Directions == {<<1, 0, 0>>, <<0, 0, 0>>}
Spacings == {0, 2}

\* arguments given to CoordinateSystem in SpecFrame
Origins == {<<0, 0, 0>>, <<1, 2, 3>>, <<-2, 0, 1>>}
AxisVecs ==
    { <<0, 0, 0>>, <<1, 0, 0>>, <<0, 1, 0>>, <<0, 0, 1>>, <<2, 0, 0>>,
      <<1, 1, 0>>, <<0, -1, 0>>, <<3, 3, 2>>, <<9, 9, 6>> }

----------------------------------------------------------------------------
(* Spec: the frame stack under scoped blocks, direct calls and operations  *)

Init ==
    /\ _current_cs = <<WORLD_CS>>
    /\ blocks = <<>>
    /\ raw = 0
    /\ op = "init"
    /\ err = "none"
    /\ result = NoValue
    /\ args = NoValue
    /\ frame = NoValue
    /\ kernel = <<>>
    /\ shapes = <<>>
    /\ heap = <<>>
    /\ threads = <<>>
    /\ pointObjs = <<>>
    /\ bodies = <<>>
    /\ _id_counter = 0

\* a LocalCoordinateSystem that pushes its frame while it builds it: when
\* the axes are rejected, the entry made for the frame is left on the list
WithEnter_push_first(a) ==
    /\ Len(blocks) < MaxDepth
    /\ Len(_current_cs) <= MaxDepth
    /\ LET c == LocalCoordinateSystem(a)
       IN  IF ~c.ok
           THEN /\ op' = "LocalCoordinateSystem"
                /\ err' = "ValueError"
                /\ result' = NoValue
                /\ _current_cs' = Append(_current_cs,
                                         [WORLD_CS EXCEPT
                                             !.origin = ToFloat(a.origin)])
                /\ UNCHANGED blocks
           ELSE /\ _current_cs' = LocalCoordinateSystem_enter(_current_cs, c.cs)
                /\ blocks' = Append(blocks,
                       [a |-> a, before |-> get_current_cs(_current_cs).cs])
                /\ op' = "__enter__"
                /\ err' = "none"
                /\ result' = c.cs
    /\ args' = a
    /\ UNCHANGED <<raw, frame, kernel, shapes, heap, threads, pointObjs,
                   bodies, _id_counter>>

\* `with LocalCoordinateSystem(origin, x_axis, y_axis):` is reached: the
\* object is constructed and, if that did not raise, __enter__ is called
WithEnter(a) ==
    /\ Len(blocks) < MaxDepth
    /\ Len(_current_cs) <= MaxDepth
    /\ LET c == LocalCoordinateSystem(a)
       IN  IF ~c.ok
           THEN /\ op' = "LocalCoordinateSystem"
                /\ err' = "ValueError"
                /\ result' = NoValue
                /\ UNCHANGED <<_current_cs, blocks>>
           ELSE /\ _current_cs' = LocalCoordinateSystem_enter(_current_cs, c.cs)
                /\ blocks' = Append(blocks,
                       [a |-> a, before |-> get_current_cs(_current_cs).cs])
                /\ op' = "__enter__"
                /\ err' = "none"
                /\ result' = c.cs
    /\ args' = a
    /\ UNCHANGED <<raw, frame, kernel, shapes, heap, threads, pointObjs,
                   bodies, _id_counter>>

\* the innermost block is left, normally (exc = FALSE) or by an exception
\* raised in its body (exc = TRUE): __exit__ runs and returns None, so the
\* exception goes on to the caller
WithExit(exc) ==
    /\ blocks # <<>>
    /\ IF _current_cs = <<>>
       THEN /\ err' = "IndexError"
            /\ UNCHANGED _current_cs
       ELSE /\ _current_cs' = LocalCoordinateSystem_exit(_current_cs, exc)
            /\ err' = IF exc THEN "Exception" ELSE "none"
    /\ blocks' = SubSeq(blocks, 1, Len(blocks) - 1)
    /\ op' = "__exit__"
    /\ result' = NoValue
    /\ args' = [exc |-> exc]
    /\ UNCHANGED <<raw, frame, kernel, shapes, heap, threads, pointObjs,
                   bodies, _id_counter>>

\* lcs.__enter__() called directly on a constructed object, outside `with`
RawEnter(a) ==
    /\ raw < MaxRaw
    /\ Len(_current_cs) <= MaxDepth
    /\ LocalCoordinateSystem(a).ok
    /\ _current_cs' = LocalCoordinateSystem_enter(_current_cs,
                                                  LocalCoordinateSystem(a).cs)
    /\ raw' = raw + 1
    /\ op' = "__enter__"
    /\ err' = "none"
    /\ result' = LocalCoordinateSystem(a).cs
    /\ args' = a
    /\ UNCHANGED <<blocks, frame, kernel, shapes, heap, threads, pointObjs,
                   bodies, _id_counter>>

\* lcs.__exit__(None, None, None) called directly, with no matching __enter__
RawExit ==
    /\ raw < MaxRaw
    /\ IF _current_cs = <<>>
       THEN /\ err' = "IndexError"
            /\ UNCHANGED _current_cs
       ELSE /\ _current_cs' = LocalCoordinateSystem_exit(_current_cs, FALSE)
            /\ err' = "none"
    /\ raw' = raw + 1
    /\ op' = "__exit__"
    /\ result' = NoValue
    /\ args' = [exc |-> FALSE]
    /\ UNCHANGED <<blocks, frame, kernel, shapes, heap, threads, pointObjs,
                   bodies, _id_counter>>

\* get_current_cs()
GetCurrentCs ==
    /\ LET g == get_current_cs(_current_cs)
       IN  /\ _current_cs' = g.stack
           /\ err' = IF g.ok THEN "none" ELSE "IndexError"
           /\ result' = g.cs
    /\ op' = "get_current_cs"
    /\ args' = NoValue
    /\ UNCHANGED <<blocks, raw, frame, kernel, shapes, heap, threads,
                   pointObjs, bodies, _id_counter>>

\* make_point_rvertex(x, y, z): result is the point handed to the kernel
MakePoint(p) ==
    /\ LET g == get_current_cs(_current_cs)
       IN  /\ _current_cs' = g.stack
           /\ err' = IF g.ok THEN "none" ELSE "ValueError"
           /\ result' = IF g.ok THEN transform_point(g.cs, ToFloat(p))
                                ELSE NoValue
    /\ op' = "make_point_rvertex"
    /\ args' = [point |-> p]
    /\ UNCHANGED <<blocks, raw, frame, kernel, shapes, heap, threads,
                   pointObjs, bodies, _id_counter>>

\* translate_shape(shape, vector): result is the translation handed to the kernel
TranslateShape(v) ==
    /\ LET t == translate_shape(_current_cs, ToFloat(v))
       IN  /\ _current_cs' = t.stack
           /\ err' = IF t.ok THEN "none" ELSE "ValueError"
           /\ result' = t.vec
    /\ op' = "translate_shape"
    /\ args' = [vector |-> v]
    /\ UNCHANGED <<blocks, raw, frame, kernel, shapes, heap, threads,
                   pointObjs, bodies, _id_counter>>

\* linear_pattern_rcompound(shape, direction, count, spacing): result is the
\* list of translations handed to the kernel, one per copy
LinearPattern(d, count, spacing) ==
    /\ LET r == linear_pattern_rcompound(_current_cs, ToFloat(d), count,
                                         spacing * Scale)
       IN  /\ _current_cs' = r.stack
           /\ err' = IF r.ok THEN "none" ELSE "ValueError"
           /\ result' = IF r.ok THEN r.vecs ELSE NoValue
    /\ op' = "linear_pattern_rcompound"
    /\ args' = [direction |-> d, count |-> count, spacing |-> spacing]
    /\ UNCHANGED <<blocks, raw, frame, kernel, shapes, heap, threads,
                   pointObjs, bodies, _id_counter>>

Next ==
    \/ \E a \in LcsArgs : WithEnter(a)
    \/ \E exc \in BOOLEAN : WithExit(exc)
    \/ \E a \in LcsArgs : RawEnter(a)
    \/ RawExit
    \/ GetCurrentCs
    \/ \E p \in Points : MakePoint(p)
    \/ \E v \in Points : TranslateShape(v)
    \/ \E d \in Directions, count \in 0..MaxCount, spacing \in Spacings :
           LinearPattern(d, count, spacing)

Spec == Init /\ [][Next]_vars

----------------------------------------------------------------------------
(* SpecFrame: one CoordinateSystem object, constructed from arguments      *)
(* drawn in InitFrame, and the calls made on it                            *)

InitFrame ==
    /\ _current_cs = <<WORLD_CS>>
    /\ blocks = <<>>
    /\ raw = 0
    /\ op = "init"
    /\ err = "none"
    /\ result = NoValue
    /\ frame = NoValue
    /\ kernel = <<>>
    /\ shapes = <<>>
    /\ heap = <<>>
    /\ args \in [origin : Origins, x_axis : AxisVecs, y_axis : AxisVecs,
                 point : SignedPoints]
    /\ threads = <<>>
    /\ pointObjs = <<>>
    /\ bodies = <<>>
    /\ _id_counter = 0

\* CoordinateSystem(origin, x_axis, y_axis)
Construct ==
    /\ op = "init"
    /\ LET c == CoordinateSystem(args.origin, args.x_axis, args.y_axis)
       IN  /\ frame' = c.cs
           /\ err' = IF c.ok THEN "none" ELSE "ValueError"
    /\ op' = "CoordinateSystem"
    /\ result' = NoValue
    /\ UNCHANGED <<_current_cs, blocks, raw, args, kernel, shapes, heap,
                   threads, pointObjs, bodies, _id_counter>>

\* frame.transform_point(point)
TransformPoint ==
    /\ op = "CoordinateSystem" /\ err = "none"
    /\ result' = transform_point(frame, ToFloat(args.point))
    /\ op' = "transform_point"
    /\ UNCHANGED <<_current_cs, blocks, raw, err, args, frame, kernel,
                   shapes, heap, threads, pointObjs, bodies, _id_counter>>

\* frame.to_cq_coords(point)
ToCqCoords ==
    /\ op = "CoordinateSystem" /\ err = "none"
    /\ result' = to_cq_coords(frame, ToFloat(args.point))
    /\ op' = "to_cq_coords"
    /\ UNCHANGED <<_current_cs, blocks, raw, err, args, frame, kernel,
                   shapes, heap, threads, pointObjs, bodies, _id_counter>>

\* frame.from_cq_coords(point)
FromCqCoords ==
    /\ op = "CoordinateSystem" /\ err = "none"
    /\ result' = from_cq_coords(frame, ToFloat(args.point))
    /\ op' = "from_cq_coords"
    /\ UNCHANGED <<_current_cs, blocks, raw, err, args, frame, kernel,
                   shapes, heap, threads, pointObjs, bodies, _id_counter>>

\* frame.from_cq_coords(q) for the q that frame.to_cq_coords(point) returned
RoundTrip ==
    /\ op = "to_cq_coords"
    /\ result' = from_cq_coords(frame, result)
    /\ op' = "round_trip"
    /\ UNCHANGED <<_current_cs, blocks, raw, err, args, frame, kernel,
                   shapes, heap, threads, pointObjs, bodies, _id_counter>>

NextFrame ==
    \/ Construct
    \/ TransformPoint
    \/ ToCqCoords
    \/ FromCqCoords
    \/ RoundTrip

SpecFrame == InitFrame /\ [][NextFrame]_vars

----------------------------------------------------------------------------
(* SpecOrigin: every call is made twice, side by side: in the current      *)
(* frame and in a second frame with the same axes and another origin       *)

\* axes of the two frames: the world axes, a quarter turn about z, and an
\* eighth turn about z
OriginAxes ==
    { [x_axis |-> <<1, 0, 0>>, y_axis |-> <<0, 1, 0>>],
      [x_axis |-> <<0, 1, 0>>, y_axis |-> <<-1, 0, 0>>],
      [x_axis |-> <<1, 1, 0>>, y_axis |-> <<-1, 1, 0>>] }

\* the stack of the second run
SecondStack == <<WORLD_CS, frame>>

InitOrigin ==
    /\ \E ax \in OriginAxes, o1 \in Origins, o2 \in Origins :
           /\ _current_cs =
                  <<WORLD_CS, CoordinateSystem(o1, ax.x_axis, ax.y_axis).cs>>
           /\ frame = CoordinateSystem(o2, ax.x_axis, ax.y_axis).cs
    /\ args \in [point : Points, vector : Points]
    /\ blocks = <<>>
    /\ raw = 0
    /\ op = "init"
    /\ err = "none"
    /\ result = NoValue
    /\ kernel = <<>>
    /\ shapes = <<>>
    /\ heap = <<>>
    /\ threads = <<>>
    /\ pointObjs = <<>>
    /\ bodies = <<>>
    /\ _id_counter = 0

\* the call returned a in the current frame and b in the second frame;
\* result keeps what each run resolved
InBoth(a, b) ==
    /\ err' = IF a.ok THEN "none" ELSE "ValueError"
    /\ result' = [a |-> [points |-> a.points, vectors |-> a.vectors],
                  b |-> [points |-> b.points, vectors |-> b.vectors]]
    /\ kernel' = a.kernel
    /\ _current_cs' = a.stack
    /\ UNCHANGED <<blocks, raw, args, frame, shapes, heap, threads,
                   pointObjs, bodies, _id_counter>>

\* make_point_rvertex(*point)
OriginMakePoint ==
    /\ op' = "make_point_rvertex"
    /\ InBoth(make_point_rvertex(_current_cs, ToFloat(args.point)),
              make_point_rvertex(SecondStack, ToFloat(args.point)))

\* translate_shape(shape, vector)
OriginTranslateShape ==
    /\ op' = "translate_shape"
    /\ LET a == translate_shape(_current_cs, ToFloat(args.vector))
           b == translate_shape(SecondStack, ToFloat(args.vector))
           translation(t) == KernelCall("translate", <<>>, <<>>, <<t.vec>>)
       IN  InBoth([ok |-> a.ok, points |-> <<>>, vectors |-> <<a.vec>>,
                   kernel |-> <<translation(a)>>, stack |-> a.stack],
                  [ok |-> b.ok, points |-> <<>>, vectors |-> <<b.vec>>,
                   kernel |-> <<translation(b)>>, stack |-> b.stack])

\* rotate_shape(shape, 90, axis=vector, origin=point)
OriginRotateShape ==
    /\ op' = "rotate_shape"
    /\ InBoth(rotate_shape(_current_cs, 90, ToFloat(args.vector),
                           ToFloat(args.point)),
              rotate_shape(SecondStack, 90, ToFloat(args.vector),
                           ToFloat(args.point)))

\* make_circle_redge(center=point, radius=1.0, normal=vector)
OriginCircle ==
    /\ op' = "make_circle_redge"
    /\ InBoth(make_circle_redge(_current_cs, ToFloat(args.point), Scale,
                                ToFloat(args.vector)),
              make_circle_redge(SecondStack, ToFloat(args.point), Scale,
                                ToFloat(args.vector)))

\* make_rectangle_rwire(center=point, width=2.0, height=1.0, normal=vector)
OriginRectangle ==
    /\ op' = "make_rectangle_rwire"
    /\ InBoth(make_rectangle_rwire(_current_cs, ToFloat(args.point), 2 * Scale,
                                   Scale, ToFloat(args.vector)),
              make_rectangle_rwire(SecondStack, ToFloat(args.point), 2 * Scale,
                                   Scale, ToFloat(args.vector)))

\* make_cylinder_rsolid(center=point, radius=1.0, height=2.0, axis=vector)
OriginCylinder ==
    /\ op' = "make_cylinder_rsolid"
    /\ InBoth(make_cylinder_rsolid(_current_cs, ToFloat(args.point), Scale,
                                   2 * Scale, ToFloat(args.vector)),
              make_cylinder_rsolid(SecondStack, ToFloat(args.point), Scale,
                                   2 * Scale, ToFloat(args.vector)))

\* extrude_rsolid(face, direction=vector, distance=2.0)
OriginExtrude ==
    /\ op' = "extrude_rsolid"
    /\ LET face == [kind |-> "Face", closed |-> TRUE]
       IN  InBoth(extrude_rsolid(_current_cs, face, ToFloat(args.vector),
                                 2 * Scale),
                  extrude_rsolid(SecondStack, face, ToFloat(args.vector),
                                 2 * Scale))

\* linear_pattern_rcompound(shape, direction=vector, count=MaxCount,
\* spacing=2.0): the vectors are the translations given to the copies
OriginLinearPattern ==
    /\ op' = "linear_pattern_rcompound"
    /\ LET a == linear_pattern_rcompound(_current_cs, ToFloat(args.vector),
                                         MaxCount, 2 * Scale)
           b == linear_pattern_rcompound(SecondStack, ToFloat(args.vector),
                                         MaxCount, 2 * Scale)
           translations(r) ==
               [i \in 1..Len(r.vecs) |->
                   KernelCall("translate", <<>>, <<>>, <<r.vecs[i]>>)]
       IN  InBoth([ok |-> a.ok, points |-> <<>>, vectors |-> a.vecs,
                   kernel |-> translations(a), stack |-> a.stack],
                  [ok |-> b.ok, points |-> <<>>, vectors |-> b.vecs,
                   kernel |-> translations(b), stack |-> b.stack])

\* mirror_shape(solid, plane_origin=point, plane_normal=vector)
OriginMirror ==
    /\ op' = "mirror_shape"
    /\ InBoth(mirror_shape(_current_cs, "Solid", ToFloat(args.point),
                           ToFloat(args.vector)),
              mirror_shape(SecondStack, "Solid", ToFloat(args.point),
                           ToFloat(args.vector)))

NextOrigin ==
    \/ OriginMakePoint
    \/ OriginTranslateShape
    \/ OriginRotateShape
    \/ OriginCircle
    \/ OriginRectangle
    \/ OriginCylinder
    \/ OriginExtrude
    \/ OriginLinearPattern
    \/ OriginMirror

SpecOrigin == InitOrigin /\ [][NextOrigin]_vars

----------------------------------------------------------------------------
(* SpecBuilders: a builder called in the World Frame or inside one         *)
(* `with LocalCoordinateSystem(...)` block, and what reaches the kernel    *)

\* Point(coords).to_cq_vector(): the Point binds the current frame, and the
\* Vector is built from to_cq_coords of its global coordinates
Point_to_cq_vector(s, coords) ==
    LET g == get_current_cs(s)
    IN  IF ~g.ok THEN Raised(g.stack)
        ELSE LET global_coords == transform_point(g.cs, coords)
                 cq_coords == to_cq_coords(g.cs, global_coords)
             IN  Returned(<<global_coords>>, <<>>,
                     <<KernelCall("Vector", <<>>, <<cq_coords>>, <<>>)>>,
                     g.stack)

\* the arguments of LcsArgs that make a frame
FrameArgs == {a \in LcsArgs : LocalCoordinateSystem(a).ok}

\* lengths given to the builders, in whole units
Dims == {-1, 0, 2}

InitBuilders ==
    /\ \/ /\ _current_cs = <<WORLD_CS>>
          /\ blocks = <<>>
       \/ \E a \in FrameArgs :
              /\ _current_cs = LocalCoordinateSystem_enter(<<WORLD_CS>>,
                                   LocalCoordinateSystem(a).cs)
              /\ blocks = <<[a |-> a, before |-> WORLD_CS]>>
    /\ raw = 0
    /\ op = "init"
    /\ err = "none"
    /\ result = NoValue
    /\ args = NoValue
    /\ frame = NoValue
    /\ kernel = <<>>
    /\ shapes = <<>>
    /\ heap = <<>>
    /\ threads = <<>>
    /\ pointObjs = <<>>
    /\ bodies = <<>>
    /\ _id_counter = 0

\* the function was called with arguments a and ran as r, to return
\* a shape of the given kind; the kernel raised in its fail-th call (0: in
\* none), which every function re-raises as ValueError. One call is followed
\* per behaviour: the functions keep nothing from one call to the next
Called(a, r, fail, kind) ==
    /\ op = "init"
    /\ fail \in 0..Len(r.kernel)
    /\ args' = a
    /\ kernel' = IF fail = 0 THEN r.kernel ELSE SubSeq(r.kernel, 1, fail)
    /\ err' = IF r.ok /\ fail = 0 THEN "none" ELSE "ValueError"
    /\ result' = IF r.ok /\ fail = 0 THEN kind ELSE NoValue
    /\ _current_cs' = r.stack
    /\ UNCHANGED <<blocks, raw, frame, shapes, heap, threads, pointObjs,
                   bodies, _id_counter>>

\* make_point_rvertex(x, y, z)
BuildPoint(p, fail) ==
    /\ op' = "make_point_rvertex"
    /\ Called([point |-> p],
              make_point_rvertex(_current_cs, ToFloat(p)), fail, "Vertex")

\* Point((x, y, z)).to_cq_vector()
BuildPointVector(p, fail) ==
    /\ op' = "Point.to_cq_vector"
    /\ Called([point |-> p],
              Point_to_cq_vector(_current_cs, ToFloat(p)), fail, "Vector")

\* make_circle_redge(center, radius, normal)
BuildCircle(c, radius, n, fail) ==
    /\ op' = "make_circle_redge"
    /\ Called([center |-> c, dims |-> <<radius>>, normal |-> n],
              make_circle_redge(_current_cs, ToFloat(c), radius * Scale, ToFloat(n)),
              fail, "Edge")

\* make_rectangle_rwire(center, width, height, normal)
BuildRectangle(c, width, height, n, fail) ==
    /\ op' = "make_rectangle_rwire"
    /\ Called([center |-> c, dims |-> <<width, height>>, normal |-> n],
              make_rectangle_rwire(_current_cs, ToFloat(c), width * Scale,
                                   height * Scale, ToFloat(n)),
              fail, "Wire")

\* make_box_rsolid(center, width, height, depth)
BuildBox(c, width, height, depth, fail) ==
    /\ op' = "make_box_rsolid"
    /\ Called([center |-> c, dims |-> <<width, height, depth>>],
              make_box_rsolid(_current_cs, ToFloat(c), width * Scale,
                              height * Scale, depth * Scale),
              fail, "Solid")

\* make_cylinder_rsolid(center, radius, height, axis)
BuildCylinder(c, radius, height, axis, fail) ==
    /\ op' = "make_cylinder_rsolid"
    /\ Called([center |-> c, dims |-> <<radius, height>>, axis |-> axis],
              make_cylinder_rsolid(_current_cs, ToFloat(c), radius * Scale,
                                   height * Scale, ToFloat(axis)),
              fail, "Solid")

\* make_sphere_rsolid(center, radius)
BuildSphere(c, radius, fail) ==
    /\ op' = "make_sphere_rsolid"
    /\ Called([center |-> c, dims |-> <<radius>>],
              make_sphere_rsolid(_current_cs, ToFloat(c), radius * Scale),
              fail, "Solid")

\* make_helix_redge(pitch, height, radius, center, dir)
BuildHelixEdge(pitch, height, radius, c, dir, fail) ==
    /\ op' = "make_helix_redge"
    /\ Called([center |-> c, dims |-> <<pitch, height, radius>>, dir |-> dir],
              make_helix_redge(_current_cs, pitch * Scale, height * Scale,
                               radius * Scale, ToFloat(c), ToFloat(dir)),
              fail, "Edge")

\* make_helix_rwire(pitch, height, radius, center, dir)
BuildHelixWire(pitch, height, radius, c, dir, fail) ==
    /\ op' = "make_helix_rwire"
    /\ Called([center |-> c, dims |-> <<pitch, height, radius>>, dir |-> dir],
              make_helix_rwire(_current_cs, pitch * Scale, height * Scale,
                               radius * Scale, ToFloat(c), ToFloat(dir)),
              fail, "Wire")

\* extrude_rsolid(profile, direction, distance)
BuildExtrude(profile, d, distance, fail) ==
    /\ op' = "extrude_rsolid"
    /\ Called([profile |-> profile, dims |-> <<distance>>, direction |-> d],
              extrude_rsolid(_current_cs, profile, ToFloat(d), distance * Scale),
              fail, "Solid")

\* mirror_shape(shape, plane_origin, plane_normal)
BuildMirror(kind, o, n, fail) ==
    /\ op' = "mirror_shape"
    /\ Called([kind |-> kind, center |-> o, normal |-> n],
              mirror_shape(_current_cs, kind, ToFloat(o), ToFloat(n)),
              fail, "Solid")

\* radial_pattern_rcompound(shape, center, axis, count, angle)
BuildRadialPattern(kind, c, axis, count, angle, fail) ==
    /\ op' = "radial_pattern_rcompound"
    /\ Called([kind |-> kind, center |-> c, axis |-> axis, count |-> count,
               angle |-> angle],
              radial_pattern_rcompound(_current_cs, kind, ToFloat(c),
                                       ToFloat(axis), count, angle * Scale),
              fail, "Compound")

\* revolve_rsolid(profile, axis, angle, origin)
BuildRevolve(profile, axis, angle, o, fail) ==
    /\ op' = "revolve_rsolid"
    /\ Called([profile |-> profile, axis |-> axis, angle |-> angle,
               center |-> o],
              revolve_rsolid(_current_cs, profile, ToFloat(axis),
                             angle * Scale, ToFloat(o)),
              fail, "Solid")

\* the profiles given to extrude_rsolid and revolve_rsolid
Profiles ==
    { [kind |-> "Wire", closed |-> TRUE], [kind |-> "Wire", closed |-> FALSE],
      [kind |-> "Face", closed |-> TRUE] }

\* a kernel call can raise: the first, the second, ... or none (0)
Fails == 0..5

\* angles given to radial_pattern_rcompound and revolve_rsolid, in whole
\* radians
Angles == {0, 3, 6}

NextBuilders ==
    \/ \E p \in Points, fail \in Fails : BuildPoint(p, fail)
    \/ \E p \in Points, fail \in Fails : BuildPointVector(p, fail)
    \/ \E c \in Points, r \in Dims, n \in Directions, fail \in Fails :
           BuildCircle(c, r, n, fail)
    \/ \E c \in Points, w \in Dims, h \in Dims, n \in Directions, fail \in Fails :
           BuildRectangle(c, w, h, n, fail)
    \/ \E c \in Points, w \in Dims, h \in Dims, d \in Dims, fail \in Fails :
           BuildBox(c, w, h, d, fail)
    \/ \E c \in Points, r \in Dims, h \in Dims, a \in Directions, fail \in Fails :
           BuildCylinder(c, r, h, a, fail)
    \/ \E c \in Points, r \in Dims, fail \in Fails : BuildSphere(c, r, fail)
    \/ \E p \in Dims, h \in Dims, r \in Dims, c \in Points, d \in Directions,
          fail \in Fails : BuildHelixEdge(p, h, r, c, d, fail)
    \/ \E p \in Dims, h \in Dims, r \in Dims, c \in Points, d \in Directions,
          fail \in Fails : BuildHelixWire(p, h, r, c, d, fail)
    \/ \E profile \in Profiles, d \in Directions, dist \in Dims, fail \in Fails :
           BuildExtrude(profile, d, dist, fail)
    \/ \E kind \in {"Solid", "Wire"}, o \in Points,
          n \in Directions \cup {<<0, 0, 1>>, <<1, 1, 0>>}, fail \in Fails :
           BuildMirror(kind, o, n, fail)
    \/ \E profile \in Profiles, axis \in Directions \cup {<<0, 0, 1>>},
          angle \in Angles, o \in {<<0, 0, 0>>, <<1, 0, 0>>}, fail \in Fails :
           BuildRevolve(profile, axis, angle, o, fail)
    \/ \E kind \in {"Solid", "Compound"}, c \in Points, axis \in Directions,
          count \in 0..MaxCount, angle \in Angles, fail \in Fails :
           BuildRadialPattern(kind, c, axis, count, angle, fail)

SpecBuilders == InitBuilders /\ [][NextBuilders]_vars

----------------------------------------------------------------------------
(* SpecShapes: two solids and two wires with tags and metadata, one         *)
(* operation deriving a new shape from them, and set_tag calls after it     *)

\* the store of the current state
Store == [shapes |-> shapes, heap |-> heap]

\* dicts given to the solids as metadata
Dict(keys, value) == [k \in keys |-> value]

\* tags and metadata the first solid starts with
FirstTags == {{}, {"a"}, {"a", "b"}}
FirstMetadata == {EmptyDict, Dict({"k"}, "one"), Dict({"k", "m"}, "one")}

\* tags and metadata the second solid starts with
SecondTags == {{"b"}, {"a", "c"}}
SecondMetadata == {EmptyDict, Dict({"k", "n"}, "two")}

\* the shapes built before the operation: solids "a" and "b", a closed
\* wire and an open wire
InitialShapes(t1, m1, t2, m2) ==
    [shapes |->
        << [kind |-> "Solid", cq |-> Handle("Solid", "a", <<"a">>, TRUE),
            _tags |-> 1, _metadata |-> 1],
           [kind |-> "Solid", cq |-> Handle("Solid", "b", <<"b">>, TRUE),
            _tags |-> 2, _metadata |-> 2],
           [kind |-> "Wire", cq |-> Handle("Wire", "w1", <<>>, TRUE),
            _tags |-> 3, _metadata |-> 3],
           [kind |-> "Wire", cq |-> Handle("Wire", "w2", <<>>, FALSE),
            _tags |-> 4, _metadata |-> 4] >>,
     heap |-> [sets |-> <<t1, t2, {"w"}, {}>>,
               dicts |-> <<m1, m2, Dict({"k"}, "wire"), EmptyDict>>]]

InitShapes ==
    /\ \E t1 \in FirstTags, m1 \in FirstMetadata, t2 \in SecondTags,
          m2 \in SecondMetadata :
           /\ shapes = InitialShapes(t1, m1, t2, m2).shapes
           /\ heap = InitialShapes(t1, m1, t2, m2).heap
    /\ _current_cs = <<WORLD_CS>>
    /\ blocks = <<>>
    /\ raw = 0
    /\ op = "init"
    /\ err = "none"
    /\ result = NoValue
    /\ args = NoValue
    /\ frame = NoValue
    /\ kernel = <<>>
    /\ threads = <<>>
    /\ pointObjs = <<>>
    /\ bodies = <<>>
    /\ _id_counter = 0

\* an operation was called with arguments a and ran as r; the kernel raised
\* in its call (fail) or not, which every operation re-raises as ValueError,
\* returning nothing. One operation is followed per behaviour
Operated(a, r, fail) ==
    /\ op = "init"
    /\ fail => r.kernel # <<>>
    /\ args' = a
    /\ kernel' = r.kernel
    /\ IF r.ok /\ ~fail
       THEN /\ err' = "none"
            /\ result' = Len(r.shapes)
            /\ shapes' = r.shapes
            /\ heap' = r.heap
       ELSE /\ err' = "ValueError"
            /\ result' = NoValue
            /\ UNCHANGED <<shapes, heap>>
    /\ UNCHANGED <<_current_cs, blocks, raw, frame, threads, pointObjs,
                   bodies, _id_counter>>

\* what the kernel can return for a boolean operation: a compound of no,
\* one or two solids, or a single solid
KernelResults ==
    { Handle("Compound", "c", <<>>, TRUE),
      Handle("Compound", "c", <<"s1">>, TRUE),
      Handle("Compound", "c", <<"s1", "s2">>, TRUE),
      Handle("Solid", "s1", <<"s1">>, TRUE) }

\* translate_shape(shape, vector)
ShapesTranslate(shape, vector, fail) ==
    /\ op' = "translate_shape"
    /\ LET t == translate_shape(_current_cs, ToFloat(vector))
       IN  Operated([shape |-> shape, vector |-> vector],
               IF ~t.ok THEN Failed(Store, <<>>)
               ELSE MovedCopy(Store, shape, "translate",
                        KernelCall("translate", <<>>, <<>>, <<t.vec>>)),
               fail)

\* rotate_shape(shape, 90, axis, origin=(0, 0, 0))
ShapesRotate(shape, axis, fail) ==
    /\ op' = "rotate_shape"
    /\ LET r == rotate_shape(_current_cs, 90, ToFloat(axis),
                             ToFloat(<<0, 0, 0>>))
       IN  Operated([shape |-> shape, axis |-> axis],
               IF ~r.ok THEN Failed(Store, <<>>)
               ELSE MovedCopy(Store, shape, "rotate", r.kernel[1]),
               fail)

\* union_rsolid(solid1, solid2)
ShapesUnion(solid1, solid2, returned, fail) ==
    /\ op' = "union_rsolid"
    /\ Operated([solid1 |-> solid1, solid2 |-> solid2, returned |-> returned],
                union_rsolid(Store, solid1, solid2, returned), fail)

\* cut_rsolid(solid1, solid2)
ShapesCut(solid1, solid2, returned, fail) ==
    /\ op' = "cut_rsolid"
    /\ Operated([solid1 |-> solid1, solid2 |-> solid2, returned |-> returned],
                cut_rsolid(Store, solid1, solid2, returned), fail)

\* intersect_rsolid(solid1, solid2)
ShapesIntersect(solid1, solid2, returned, fail) ==
    /\ op' = "intersect_rsolid"
    /\ Operated([solid1 |-> solid1, solid2 |-> solid2, returned |-> returned],
                intersect_rsolid(Store, solid1, solid2, returned), fail)

\* fillet_rsolid(solid, edges, radius): each edge is named by the solid it
\* was taken from
ShapesFillet(solid, edges, radius, fail) ==
    /\ op' = "fillet_rsolid"
    /\ Operated([solid |-> solid, edges |-> edges, dims |-> <<radius>>],
                fillet_rsolid(Store, solid, edges, radius * Scale), fail)

\* chamfer_rsolid(solid, edges, distance)
ShapesChamfer(solid, edges, distance, fail) ==
    /\ op' = "chamfer_rsolid"
    /\ Operated([solid |-> solid, edges |-> edges, dims |-> <<distance>>],
                chamfer_rsolid(Store, solid, edges, distance * Scale), fail)

\* loft_rsolid(profiles)
ShapesLoft(profiles, fail) ==
    /\ op' = "loft_rsolid"
    /\ Operated([profiles |-> profiles], loft_rsolid(Store, profiles), fail)

\* export_stl(shapes, filename); raised tells whether the kernel raised in
\* cq.exporters.export, which export_stl re-raises as ValueError; nothing
\* is returned
ShapesExportStl(exported, raised) ==
    /\ op = "init"
    /\ op' = "export_stl"
    /\ args' = [shapes |-> exported, raised |-> raised]
    /\ kernel' = export_stl(Store, exported).kernel
    /\ err' = IF raised THEN "ValueError" ELSE "none"
    /\ result' = NoValue
    /\ UNCHANGED <<_current_cs, blocks, raw, frame, shapes, heap, threads,
                   pointObjs, bodies, _id_counter>>

\* set_tag(shape, tag), once the operation has returned: shape.add_tag(tag),
\* and the same shape is returned
SetTag(shape, tag) ==
    /\ op \notin {"init", "set_tag"}
    /\ shape \in 1..Len(shapes)
    /\ op' = "set_tag"
    /\ args' = [shape |-> shape, tag |-> tag]
    /\ shapes' = add_tag(Store, shape, tag).shapes
    /\ heap' = add_tag(Store, shape, tag).heap
    /\ err' = "none"
    /\ result' = shape
    /\ kernel' = <<>>
    /\ UNCHANGED <<_current_cs, blocks, raw, frame, threads, pointObjs,
                   bodies, _id_counter>>

\* the solids and the wires among the initial shapes
SolidShapes == {1, 2}
WireShapes == {3, 4}

\* edge lists given to fillet_rsolid and chamfer_rsolid
EdgeLists == {<<>>, <<"a">>, <<"b">>, <<"a", "b">>}

\* shape lists given to export_stl
ExportLists == {<<>>, <<1>>, <<1, 2>>, <<1, 3>>, <<4>>}

\* profile lists given to loft_rsolid
ProfileLists == {<<>>, <<3>>, <<3, 3>>, <<3, 4>>, <<4, 3>>}

NextShapes ==
    \/ \E shape \in SolidShapes \cup WireShapes, v \in Directions,
          fail \in BOOLEAN : ShapesTranslate(shape, v, fail)
    \/ \E shape \in SolidShapes \cup WireShapes, axis \in Directions,
          fail \in BOOLEAN : ShapesRotate(shape, axis, fail)
    \/ \E s1 \in SolidShapes, s2 \in SolidShapes, returned \in KernelResults,
          fail \in BOOLEAN : ShapesUnion(s1, s2, returned, fail)
    \/ \E s1 \in SolidShapes, s2 \in SolidShapes, returned \in KernelResults,
          fail \in BOOLEAN : ShapesCut(s1, s2, returned, fail)
    \/ \E s1 \in SolidShapes, s2 \in SolidShapes, returned \in KernelResults,
          fail \in BOOLEAN : ShapesIntersect(s1, s2, returned, fail)
    \/ \E solid \in SolidShapes, edges \in EdgeLists, radius \in Dims,
          fail \in BOOLEAN : ShapesFillet(solid, edges, radius, fail)
    \/ \E solid \in SolidShapes, edges \in EdgeLists, distance \in Dims,
          fail \in BOOLEAN : ShapesChamfer(solid, edges, distance, fail)
    \/ \E profiles \in ProfileLists, fail \in BOOLEAN :
           ShapesLoft(profiles, fail)
    \/ \E exported \in ExportLists, raised \in BOOLEAN :
           ShapesExportStl(exported, raised)
    \/ \E shape \in 1..5, tag \in {"new"} : SetTag(shape, tag)

SpecShapes == InitShapes /\ [][NextShapes]_vars

----------------------------------------------------------------------------
(* SpecThreads: two threads, each running                                   *)
(*     with LocalCoordinateSystem(origin, x_axis, y_axis):                  *)
(*         get_current_cs()                                                 *)
(* against the one module-level list _current_cs, with no lock. A step is   *)
(* one call of a method; blocks names, for each entry of the list above     *)
(* the World Frame, the thread that pushed it                               *)

Threads == {1, 2}

InitThreads ==
    /\ _current_cs = <<WORLD_CS>>
    /\ threads = [t \in Threads |->
                     [pc |-> "start", cs |-> NoValue, seen |-> NoValue]]
    /\ blocks = <<>>
    /\ raw = 0
    /\ op = "init"
    /\ err = "none"
    /\ result = NoValue
    /\ args = NoValue
    /\ frame = NoValue
    /\ kernel = <<>>
    /\ shapes = <<>>
    /\ heap = <<>>
    /\ pointObjs = <<>>
    /\ bodies = <<>>
    /\ _id_counter = 0

\* thread t evaluates LocalCoordinateSystem(origin, x_axis, y_axis)
ThreadConstruct(t, a) ==
    /\ threads[t].pc = "start"
    /\ LET c == LocalCoordinateSystem(a)
       IN  /\ threads' = [threads EXCEPT
                  ![t].pc = IF c.ok THEN "made" ELSE "raised",
                  ![t].cs = c.cs]
           /\ err' = IF c.ok THEN "none" ELSE "ValueError"
    /\ op' = "LocalCoordinateSystem"
    /\ args' = [thread |-> t, a |-> a]
    /\ result' = NoValue
    /\ UNCHANGED <<_current_cs, blocks, raw, frame, kernel, shapes, heap,
                   pointObjs, bodies, _id_counter>>

\* thread t enters its block: __enter__
ThreadEnter(t) ==
    /\ threads[t].pc = "made"
    /\ _current_cs' = LocalCoordinateSystem_enter(_current_cs, threads[t].cs)
    /\ threads' = [threads EXCEPT ![t].pc = "inside"]
    /\ blocks' = Append(blocks, t)
    /\ op' = "__enter__"
    /\ err' = "none"
    /\ args' = [thread |-> t]
    /\ result' = threads[t].cs
    /\ UNCHANGED <<raw, frame, kernel, shapes, heap, pointObjs, bodies,
                   _id_counter>>

\* get_current_cs() giving each thread the frame it entered itself
ThreadGetCurrentCs_own(t) ==
    /\ threads[t].pc = "inside"
    /\ threads' = [threads EXCEPT ![t].pc = "read", ![t].seen = threads[t].cs]
    /\ op' = "get_current_cs"
    /\ err' = "none"
    /\ args' = [thread |-> t]
    /\ result' = threads[t].cs
    /\ UNCHANGED <<_current_cs, blocks, raw, frame, kernel, shapes, heap,
                   pointObjs, bodies, _id_counter>>

\* thread t, inside its block, calls get_current_cs()
ThreadGetCurrentCs(t) ==
    /\ threads[t].pc = "inside"
    /\ LET g == get_current_cs(_current_cs)
       IN  /\ _current_cs' = g.stack
           /\ threads' = [threads EXCEPT ![t].pc = "read", ![t].seen = g.cs]
           /\ err' = IF g.ok THEN "none" ELSE "IndexError"
           /\ result' = g.cs
    /\ op' = "get_current_cs"
    /\ args' = [thread |-> t]
    /\ UNCHANGED <<blocks, raw, frame, kernel, shapes, heap, pointObjs,
                   bodies, _id_counter>>

\* thread t leaves its block: __exit__
ThreadExit(t) ==
    /\ threads[t].pc \in {"inside", "read"}
    /\ IF _current_cs = <<>>
       THEN /\ err' = "IndexError"
            /\ UNCHANGED _current_cs
       ELSE /\ _current_cs' = LocalCoordinateSystem_exit(_current_cs, FALSE)
            /\ err' = "none"
    /\ blocks' = IF blocks = <<>> THEN blocks ELSE Pop(blocks)
    /\ threads' = [threads EXCEPT ![t].pc = "done"]
    /\ op' = "__exit__"
    /\ args' = [thread |-> t]
    /\ result' = NoValue
    /\ UNCHANGED <<raw, frame, kernel, shapes, heap, pointObjs, bodies,
                   _id_counter>>

NextThreads ==
    \/ \E t \in Threads, a \in LcsArgs : ThreadConstruct(t, a)
    \/ \E t \in Threads : ThreadEnter(t)
    \/ \E t \in Threads : ThreadGetCurrentCs(t)
    \/ \E t \in Threads : ThreadExit(t)

SpecThreads == InitThreads /\ [][NextThreads]_vars

----------------------------------------------------------------------------
(* SpecPoints: Points made inside and outside `with` blocks, and Sketches  *)
(* made of segments between them                                            *)

MaxPoints == 2          \* Point objects made

InitPoints ==
    /\ _current_cs = <<WORLD_CS>>
    /\ blocks = <<>>
    /\ pointObjs = <<>>
    /\ raw = 0
    /\ op = "init"
    /\ err = "none"
    /\ result = NoValue
    /\ args = NoValue
    /\ frame = NoValue
    /\ kernel = <<>>
    /\ shapes = <<>>
    /\ heap = <<>>
    /\ threads = <<>>
    /\ bodies = <<>>
    /\ _id_counter = 0

\* `with LocalCoordinateSystem(origin, x_axis, y_axis):` is entered
PointsEnter(a) ==
    /\ op # "Sketch"
    /\ blocks = <<>>
    /\ _current_cs' = LocalCoordinateSystem_enter(_current_cs,
                                                  LocalCoordinateSystem(a).cs)
    /\ blocks' = Append(blocks, [a |-> a, before |-> WORLD_CS])
    /\ op' = "__enter__"
    /\ err' = "none"
    /\ result' = NoValue
    /\ args' = a
    /\ UNCHANGED <<raw, frame, kernel, shapes, heap, threads, pointObjs,
                   bodies, _id_counter>>

\* the block is left
PointsExit ==
    /\ op # "Sketch"
    /\ blocks # <<>>
    /\ _current_cs' = LocalCoordinateSystem_exit(_current_cs, FALSE)
    /\ blocks' = Pop(blocks)
    /\ op' = "__exit__"
    /\ err' = "none"
    /\ result' = NoValue
    /\ args' = NoValue
    /\ UNCHANGED <<raw, frame, kernel, shapes, heap, threads, pointObjs,
                   bodies, _id_counter>>

\* Point(coords), or Point(coords, cs=WORLD_CS) when explicit; the object
\* is kept together with the stack as it was when the Point was made
MakePointObj(coords, explicit) ==
    /\ op # "Sketch"
    /\ Len(pointObjs) < MaxPoints
    /\ LET made == Point(_current_cs, ToFloat(coords), explicit, WORLD_CS)
       IN  /\ _current_cs' = made.stack
           /\ err' = IF made.ok THEN "none" ELSE "IndexError"
           /\ pointObjs' =
                  IF made.ok
                  THEN Append(pointObjs,
                           [point |-> made.point, explicit |-> explicit,
                            made_in |-> _current_cs])
                  ELSE pointObjs
    /\ op' = "Point"
    /\ result' = NoValue
    /\ args' = [coords |-> coords, explicit |-> explicit]
    /\ UNCHANGED <<blocks, raw, frame, kernel, shapes, heap, threads, bodies,
                   _id_counter>>

\* Sketch(lines), each line being Line([p, q]) for two of the Points made;
\* a line is given by the numbers of its points. A Sketch changes nothing
\* that a later call reads: the behaviour is followed up to the first one
MakeSketch(lines) ==
    /\ op # "Sketch"
    /\ \A k \in 1..Len(lines) : \A j \in 1..2 : lines[k][j] <= Len(pointObjs)
    /\ LET sketch == Sketch(_current_cs,
                         [k \in 1..Len(lines) |->
                             [j \in 1..2 |-> pointObjs[lines[k][j]].point]])
       IN  /\ err' = IF sketch.ok THEN "none" ELSE "ValueError"
           /\ result' = sketch.cs
    /\ op' = "Sketch"
    /\ args' = [lines |-> lines]
    /\ UNCHANGED <<_current_cs, blocks, raw, frame, kernel, shapes, heap,
                   threads, pointObjs, bodies, _id_counter>>

NextPoints ==
    \/ \E a \in FrameArgs : PointsEnter(a)
    \/ PointsExit
    \/ \E coords \in {<<0, 0, 0>>, <<0, 0, 1>>}, explicit \in BOOLEAN :
           MakePointObj(coords, explicit)
    \/ \E n \in 0..2 :
           \E lines \in [1..n -> (1..MaxPoints) \X (1..MaxPoints)] :
               MakeSketch(lines)

SpecPoints == InitPoints /\ [][NextPoints]_vars

----------------------------------------------------------------------------
(* SpecBodies: Body objects made one after the other *)

MaxBodies == 4          \* Body objects made

InitBodies ==
    /\ bodies = <<>>
    /\ _id_counter = 0
    /\ _current_cs = <<WORLD_CS>>
    /\ blocks = <<>>
    /\ raw = 0
    /\ op = "init"
    /\ err = "none"
    /\ result = NoValue
    /\ args = NoValue
    /\ frame = NoValue
    /\ kernel = <<>>
    /\ shapes = <<>>
    /\ heap = <<>>
    /\ threads = <<>>
    /\ pointObjs = <<>>

\* Body(cq_solid)
MakeBody(cq_solid) ==
    /\ Len(bodies) < MaxBodies
    /\ LET made == Body(_id_counter, cq_solid)
       IN  /\ bodies' = Append(bodies, made.body)
           /\ _id_counter' = made._id_counter
    /\ op' = "Body"
    /\ err' = "none"
    /\ result' = NoValue
    /\ args' = [cq_solid |-> cq_solid]
    /\ UNCHANGED <<_current_cs, blocks, raw, frame, kernel, shapes, heap,
                   threads, pointObjs>>

NextBodies == \E cq_solid \in {"None", "a", "b"} : MakeBody(cq_solid)

SpecBodies == InitBodies /\ [][NextBodies]_vars

----------------------------------------------------------------------------
(* Properties *)

\* the entry get_current_cs() would return, NoValue on an empty list
Current == IF _current_cs = <<>> THEN NoValue
                                 ELSE _current_cs[Len(_current_cs)]

\* the frame the innermost open block was given, WORLD_CS outside all blocks
InnermostFrame ==
    IF blocks = <<>> THEN WORLD_CS
                     ELSE LocalCoordinateSystem(blocks[Len(blocks)].a).cs

\* C1: as long as frames are entered and left only by properly nested `with`
\* blocks, the current frame is the frame of the innermost open block
\* (WORLD_CS outside all blocks), and when a block is left, normally or by
\* an exception, the current frame is the one that was current before the
\* block was entered.
C1_ScopedBlocksRestoreCurrent ==
    /\ [](raw = 0 => Current = InnermostFrame)
    /\ [][(raw' = 0 /\ Len(blocks') < Len(blocks))
             => Current' = blocks[Len(blocks)].before]_vars

\* C1 witness: a block nested inside an open block has been left by an exception
C1_Witness ==
    /\ raw = 0
    /\ op = "__exit__"
    /\ args.exc
    /\ Len(blocks) >= 1
    /\ Current # WORLD_CS

\* C2: in every reachable state the frame stack is non-empty, its bottom
\* entry is WORLD_CS, and get_current_cs() does not fail.
C2_StackNeverEmpty ==
    /\ _current_cs # <<>>
    /\ _current_cs[1] = WORLD_CS
    /\ (op = "get_current_cs" => err = "none")

\* C3: an __exit__ attempted when the stack holds only the World Frame fails
\* with EmptyStackError and leaves the stack unchanged.
C3_PopOfWorldFrameRejected ==
    [][(op' = "__exit__" /\ _current_cs = <<WORLD_CS>>)
          => (_current_cs' = _current_cs /\ err' = "EmptyStackError")]_vars

\* C4: only entering or leaving a LocalCoordinateSystem changes the frame
\* stack; every other call, whether it succeeds or raises, leaves the stack
\* contents and order as they were.
C4_OnlyBlocksChangeStack ==
    [][op' \notin {"__enter__", "__exit__"} => _current_cs' = _current_cs]_vars

\* C4 witness: a pattern of MaxCount copies was built inside two nested blocks
C4_Witness ==
    /\ op = "linear_pattern_rcompound"
    /\ err = "none"
    /\ Len(result) = MaxCount
    /\ Len(blocks) >= 2
    /\ Len(_current_cs) >= 3

C6_RoundTripIdentity ==
    op = "round_trip" => result = ToFloat(args.point)

\* C6 witness: a point with distinct non-zero y and z went through the round trip
C6_Witness ==
    /\ op = "round_trip"
    /\ args.point[2] # 0
    /\ args.point[3] # 0
    /\ args.point[2] # args.point[3]

\* C7: to_cq_coords maps (x, y, z) to (x, z, -y) and from_cq_coords maps
\* (x, y, z) to (x, -z, y), whatever the origin and axes of the frame.
C7_AdapterMapping ==
    LET x == args.point[1] * Scale
        y == args.point[2] * Scale
        z == args.point[3] * Scale
    IN  /\ op = "to_cq_coords" => result = <<x, z, -y>>
        /\ op = "from_cq_coords" => result = <<x, -z, y>>

\* C7 witness: to_cq_coords was called on a shifted, turned frame with a
\* point of non-zero coordinates
C7_Witness ==
    /\ op = "to_cq_coords"
    /\ frame.origin # <<0, 0, 0>>
    /\ frame.x_axis # WORLD_CS.x_axis
    /\ args.point[1] # 0
    /\ args.point[2] # 0
    /\ args.point[3] # 0

\* exact tests on the whole-number arguments
IsZero(v) == v = <<0, 0, 0>>
IsParallel(a, b) ==
    /\ a[2] * b[3] - a[3] * b[2] = 0
    /\ a[3] * b[1] - a[1] * b[3] = 0
    /\ a[1] * b[2] - a[2] * b[1] = 0

\* C8: constructing a frame fails, and yields no frame, whenever x_axis or
\* y_axis is zero-length or x_axis and y_axis are parallel.
C8_DegenerateAxesRejected ==
    (/\ op = "CoordinateSystem"
     /\ \/ IsZero(args.x_axis)
        \/ IsZero(args.y_axis)
        \/ IsParallel(args.x_axis, args.y_axis))
        => (err = "ValueError" /\ frame = NoValue)

\* C9: every constructed frame is orthonormal: the three axes have unit
\* length and their pairwise dot products are 0 (within two units of the
\* fixed-point resolution).
C9_FrameOrthonormal ==
    (op = "CoordinateSystem" /\ err = "none")
        => /\ Abs(norm(frame.x_axis) - Scale) <= 2
           /\ Abs(norm(frame.y_axis) - Scale) <= 2
           /\ Abs(norm(frame.z_axis) - Scale) <= 2
           /\ Abs(Dot(frame.x_axis, frame.y_axis)) <= 2
           /\ Abs(Dot(frame.x_axis, frame.z_axis)) <= 2
           /\ Abs(Dot(frame.y_axis, frame.z_axis)) <= 2

\* C10: transform_point returns origin + p.x*x_axis + p.y*y_axis + p.z*z_axis
\* and changes neither the frame nor the frame stack.
C10_TransformPointFormula ==
    [][op' = "transform_point"
          => /\ \A i \in 1..3 :
                  result'[i] = frame.origin[i]
                               + Mul(args.point[1] * Scale, frame.x_axis[i])
                               + Mul(args.point[2] * Scale, frame.y_axis[i])
                               + Mul(args.point[3] * Scale, frame.z_axis[i])
             /\ frame' = frame
             /\ _current_cs' = _current_cs]_vars

\* C10 witness: a point of non-zero coordinates was transformed by a frame
\* with a non-zero origin and axes other than the world axes
C10_Witness ==
    /\ op = "transform_point"
    /\ frame.origin # <<0, 0, 0>>
    /\ frame.x_axis # WORLD_CS.x_axis
    /\ frame.y_axis # WORLD_CS.y_axis
    /\ args.point[1] # 0
    /\ args.point[2] # 0
    /\ args.point[3] # 0

\* C11: for two current frames that differ only in origin, every operation
\* resolves its vector arguments (translation, axis, normal, direction) to
\* the same world vectors, and its point arguments (centre, origin, vertex)
\* to world points that differ by exactly the difference of the two origins.
C11_VectorsNotTranslated ==
    op # "init" =>
        LET shift == VecSub(frame.origin, Current.origin)
        IN  /\ result.a.vectors = result.b.vectors
            /\ Len(result.a.points) = Len(result.b.points)
            /\ \A i \in 1..Len(result.a.points) :
                   result.b.points[i] = VecAdd(result.a.points[i], shift)

\* C11 witness: a rotation about a non-zero axis and a non-zero centre was
\* resolved in two turned frames whose origins differ
C11_Witness ==
    /\ op = "rotate_shape"
    /\ err = "none"
    /\ frame.origin # Current.origin
    /\ Current.x_axis # WORLD_CS.x_axis
    /\ args.vector = <<1, 1, 1>>
    /\ args.point = <<0, 2, -1>>
    /\ result.a.vectors # <<ToFloat(<<0, 0, 0>>)>>
    /\ result.a.points # result.b.points

\* the functions of SpecBuilders whose first kernel call takes one point
PointBuilders ==
    { "make_point_rvertex", "Point.to_cq_vector", "make_circle_redge",
      "make_box_rsolid", "make_cylinder_rsolid", "make_sphere_rsolid",
      "make_helix_redge", "make_helix_rwire", "mirror_shape" }

\* the local point the last call was given
GivenPoint == IF "point" \in DOMAIN args THEN args.point ELSE args.center

\* C12: whenever a builder or operation hands a point to the kernel, the
\* kernel receives the point resolved to world coordinates through the
\* current frame and then mapped by the adapter, (x, y, z) -> (x, z, -y);
\* all builders and operations use this one mapping.
C12_KernelGetsAdaptedWorldPoint ==
    (op \in PointBuilders /\ kernel # <<>>)
        => kernel[1].points =
               <<to_cq_coords(Current,
                              transform_point(Current, ToFloat(GivenPoint)))>>

\* the last call was given a length (radius, width, height, depth, pitch,
\* distance) that is zero or negative
NonPositiveDimension ==
    /\ op # "init"
    /\ "dims" \in DOMAIN args
    /\ \E i \in 1..Len(args.dims) : args.dims[i] <= 0

\* C13: a builder or operation called with a non-positive dimension raises
\* before anything is handed to the kernel, and returns no shape; this
\* includes make_helix_redge and make_helix_rwire.
C13_NonPositiveDimensionFailsFast ==
    NonPositiveDimension
        => (err = "ValueError" /\ kernel = <<>> /\ result = NoValue)

\* m is the shallow merge of m1 and m2 in which m2 wins on the keys of both
IsMergeSecondWins(m, m1, m2) ==
    /\ DOMAIN m = (DOMAIN m1) \cup (DOMAIN m2)
    /\ \A k \in DOMAIN m2 : m[k] = m2[k]
    /\ \A k \in (DOMAIN m1) \ (DOMAIN m2) : m[k] = m1[k]

\* C14: union_rsolid(A, B) returns a shape whose tags are A.tags \cup B.tags
\* and whose metadata is the shallow merge of A's and B's metadata, B's
\* value winning on every key present in both.
C14_UnionTagsAndMetadata ==
    (op = "union_rsolid" /\ err = "none")
        => /\ TagsOf(Store, result) =
                  TagsOf(Store, args.solid1) \cup TagsOf(Store, args.solid2)
           /\ IsMergeSecondWins(MetadataOf(Store, result),
                                MetadataOf(Store, args.solid1),
                                MetadataOf(Store, args.solid2))

\* C14 witness: a union of two different solids, each with a tag the other
\* lacks, whose metadata disagree on the key "k" and each have a key of
\* their own
C14_Witness ==
    /\ op = "union_rsolid"
    /\ err = "none"
    /\ args.solid1 = 1
    /\ args.solid2 = 2
    /\ TagsOf(Store, 1) = {"a", "b"}
    /\ TagsOf(Store, 2) = {"a", "c"}
    /\ MetadataOf(Store, 1) = Dict({"k", "m"}, "one")
    /\ MetadataOf(Store, 2) = Dict({"k", "n"}, "two")
    /\ MetadataOf(Store, result)["k"] = "two"

\* the store of the next state
StoreNext == [shapes |-> shapes', heap |-> heap']

\* the shape returned by the last call has the tags and metadata of shape i
SameTagsAndMetadata(i) ==
    /\ TagsOf(Store, result) = TagsOf(Store, i)
    /\ MetadataOf(Store, result) = MetadataOf(Store, i)

\* C15: translate_shape and rotate_shape return a shape with the tags and
\* metadata of their input, cut_rsolid(A, B) one with the tags and metadata
\* of A; the result holds its own copy: a tag added to it afterwards leaves
\* the tag set of every other shape as it was.
C15_CopiedTagsAreOwn ==
    /\ []((op \in {"translate_shape", "rotate_shape"} /\ err = "none")
              => SameTagsAndMetadata(args.shape))
    /\ []((op = "cut_rsolid" /\ err = "none")
              => SameTagsAndMetadata(args.solid1))
    /\ [][(/\ op \in {"translate_shape", "rotate_shape", "cut_rsolid"}
           /\ err = "none"
           /\ op' = "set_tag"
           /\ args'.shape = result)
              => \A i \in 1..Len(shapes) :
                     i # result
                         => TagsOf(StoreNext, i) = TagsOf(Store, i)]_vars

\* C15 witness: the first solid, tagged "a" and "b", was translated, and the
\* tag "new" was then added to the translated copy
C15_Witness ==
    /\ op = "set_tag"
    /\ args.shape = Len(shapes)
    /\ shapes[args.shape].cq = Handle("Solid", "translate", <<"a">>, TRUE)
    /\ TagsOf(Store, args.shape) = {"a", "b", "new"}
    /\ TagsOf(Store, 1) = {"a", "b"}

\* each key of m comes from m1 or m2, with the value it has there
IsShallowMerge(m, m1, m2) ==
    /\ DOMAIN m = (DOMAIN m1) \cup (DOMAIN m2)
    /\ \A k \in DOMAIN m :
           \/ k \in DOMAIN m1 /\ m[k] = m1[k]
           \/ k \in DOMAIN m2 /\ m[k] = m2[k]

\* C16: intersect_rsolid(A, B) returns a shape whose tags are
\* A.tags \cap B.tags and whose metadata is a shallow merge of A's and B's.
C16_IntersectTagsAndMetadata ==
    (op = "intersect_rsolid" /\ err = "none")
        => /\ TagsOf(Store, result) =
                  TagsOf(Store, args.solid1) \cap TagsOf(Store, args.solid2)
           /\ IsShallowMerge(MetadataOf(Store, result),
                             MetadataOf(Store, args.solid1),
                             MetadataOf(Store, args.solid2))

\* C16 witness: two different solids sharing only the tag "a" were
\* intersected, their metadata having keys of their own
C16_Witness ==
    /\ op = "intersect_rsolid"
    /\ err = "none"
    /\ args.solid1 = 1
    /\ args.solid2 = 2
    /\ TagsOf(Store, 1) = {"a", "b"}
    /\ TagsOf(Store, 2) = {"a", "c"}
    /\ TagsOf(Store, result) = {"a"}
    /\ DOMAIN MetadataOf(Store, result) = {"k", "m", "n"}

BooleanOperations == {"union_rsolid", "cut_rsolid", "intersect_rsolid"}

\* C17: the shape returned by union_rsolid, cut_rsolid or intersect_rsolid
\* wraps exactly one kernel solid, the first one when the kernel result
\* holds several; no shape is returned around a kernel result that is not
\* a solid or holds no solid.
C17_BooleanResultIsOneSolid ==
    (op \in BooleanOperations /\ err = "none")
        => /\ shapes[result].cq.type = "Solid"
           /\ Len(shapes[result].cq.parts) = 1
           /\ args.returned.parts # <<>>
           /\ shapes[result].cq.id = args.returned.parts[1]

\* the solid whose edges were passed does own the edge
BelongsTo(edge, solid) == edge = shapes[solid].cq.id

\* C18: fillet_rsolid and chamfer_rsolid fail, with nothing handed to the
\* kernel, when the radius or distance is not positive, when the edge list
\* is empty, or when one of the edges does not belong to the solid.
C18_FilletChamferValidateEdges ==
    (/\ op \in {"fillet_rsolid", "chamfer_rsolid"}
     /\ \/ args.dims[1] <= 0
        \/ args.edges = <<>>
        \/ \E i \in 1..Len(args.edges) : ~BelongsTo(args.edges[i], args.solid))
        => (err = "ValueError" /\ kernel = <<>>)

\* C19: loft_rsolid fails, with nothing handed to the kernel, unless it is
\* given at least 2 profiles, each of them a closed wire.
C19_LoftValidatesProfiles ==
    (/\ op = "loft_rsolid"
     /\ \/ Len(args.profiles) < 2
        \/ \E i \in 1..Len(args.profiles) :
               \/ shapes[args.profiles[i]].kind # "Wire"
               \/ ~shapes[args.profiles[i]].cq.closed)
        => (err = "ValueError" /\ kernel = <<>>)

\* the displacement copy i of a linear pattern is to have: the direction
\* resolved once through the current frame, normalised, times spacing * i
ExpectedOffset(direction, spacing, i) ==
    LET global_direction ==
            VecSub(transform_point(Current, ToFloat(direction)), Current.origin)
    IN  VecScale(spacing * Scale * i, _normalize(global_direction).v)

\* C20: linear_pattern_rcompound fails if count < 1 or spacing <= 0;
\* otherwise, for a non-zero direction, it makes exactly count copies and
\* copy i (i = 0..count-1) is displaced by normalize(direction) * spacing * i,
\* the direction being resolved through the current frame once.
C20_LinearPatternOffsets ==
    (op = "linear_pattern_rcompound" /\ _current_cs # <<>>)
        => IF args.count < 1 \/ args.spacing <= 0
           THEN err = "ValueError"
           ELSE ~IsZero(args.direction)
                    => /\ err = "none"
                       /\ Len(result) = args.count
                       /\ \A i \in 0..(args.count - 1) :
                              result[i + 1] =
                                  ExpectedOffset(args.direction, args.spacing, i)

\* C21: radial_pattern_rcompound(shape, center, axis, count, total_angle)
\* that returns has made exactly count copies, copy i (i = 0..count-1)
\* rotated by (total_angle / count) * i about the axis and the center as
\* resolved through the current frame: copy 0 is not rotated, the copies are
\* one step apart, count steps make the total angle (to the rounding of the
\* division), and no copy is rotated by the total angle itself
RotateCalls == SelectSeq(kernel, LAMBDA call : call.fn = "rotate")
C21_RadialPatternAngles ==
    (op = "radial_pattern_rcompound" /\ err = "none") =>
        LET total_angle == args.angle * Scale
            step == IF Len(RotateCalls) > 1 THEN RotateCalls[2].dims[1]
                                             ELSE RoundDiv(total_angle, args.count)
        IN  /\ Len(RotateCalls) = args.count
            /\ 2 * Abs(step * args.count - total_angle) <= args.count
            /\ \A i \in 0..(args.count - 1) :
                   /\ RotateCalls[i + 1].dims = <<step * i>>
                   /\ RotateCalls[i + 1].dims[1] < total_angle
                   /\ RotateCalls[i + 1].points =
                          <<transform_point(Current, ToFloat(args.center))>>
                   /\ RotateCalls[i + 1].vectors =
                          <<VecSub(transform_point(Current, ToFloat(args.axis)),
                                   Current.origin)>>
            /\ kernel[Len(kernel)].fn = "cq.Compound.makeCompound"
            /\ kernel[Len(kernel)].dims = <<args.count>>

\* a pattern of two copies was made inside a turned frame
C21_Witness ==
    /\ op = "radial_pattern_rcompound" /\ err = "none"
    /\ args.count = 2 /\ args.angle = 3 /\ args.axis = <<1, 0, 0>>
    /\ args.center = <<1, 1, 1>>
    /\ Len(_current_cs) = 2 /\ Current.x_axis = ToFloat(<<0, 1, 0>>)
    /\ Len(kernel) = 3
    /\ kernel[2].dims[1] > 0

\* the normal of the plane that a plane name stands for in the kernel
PlaneNormal(mirror_plane_str) ==
    IF mirror_plane_str = "YZ" THEN <<1, 0, 0>>
    ELSE IF mirror_plane_str = "XZ" THEN <<0, 1, 0>>
    ELSE <<0, 0, 1>>

\* C22: mirror_shape(shape, plane_origin, plane_normal) fails when the
\* resolved normal is zero or the shape is not a Solid, and otherwise, when
\* the kernel does not fail, the Solid is reflected across the plane through
\* the resolved plane_origin whose normal is the resolved plane_normal,
\* whatever the direction of the normal: the plane the kernel mirrors about
\* has the normal and the base point that mirror_shape worked out.
C22_MirrorAcrossGivenPlane ==
    (op = "mirror_shape") =>
        LET global_normal == transform_vector(Current, ToFloat(args.normal))
        IN  /\ (IsZero(global_normal) \/ args.kind # "Solid") => err # "none"
            /\ err = "none" =>
                   /\ Len(kernel) = 2
                   /\ kernel[2].fn = "cq.Workplane.mirror"
                   /\ kernel[2].points = kernel[1].points
                   /\ IsParallel(PlaneNormal(kernel[2].dims[1]),
                                 kernel[1].vectors[1])

\* C23: no failure is swallowed. When the kernel raises inside export_stl,
\* export_stl raises to its caller, and the kernel is not called again; and
\* when export_stl returns, every shape passed to it has been handed to the
\* kernel for export: a shape is either exported or the cause of an error.
C23_NoFailureSwallowed ==
    (op = "export_stl") =>
        /\ args.raised => (err = "ValueError" /\ result = NoValue)
        /\ kernel[Len(kernel)].fn = "cq.exporters.export"
        /\ \A i \in 1..(Len(kernel) - 1) : kernel[i].fn # "cq.exporters.export"
        /\ err = "none" =>
               \A i \in 1..Len(args.shapes) :
                   \E j \in 1..Len(kernel) :
                       /\ kernel[j].fn = "cq.Workplane.add"
                       /\ kernel[j].dims = <<shapes[args.shapes[i]].cq.id>>

\* C24: shapes are immutable once constructed. No call changes the tags or
\* the metadata of a shape that existed before the call, and a call that
\* returns a shape (set_tag included) returns a new one, not one of the
\* shapes that existed before.
C24_ShapesImmutable ==
    [][ /\ \A i \in 1..Len(shapes) :
               /\ TagsOf(StoreNext, i) = TagsOf(Store, i)
               /\ MetadataOf(StoreNext, i) = MetadataOf(Store, i)
        /\ (err' = "none" /\ op' # "export_stl") => result' > Len(shapes)
      ]_vars

\* C25: the frame stack is one list for all threads, used without a lock.
\* Each of its entries above the World Frame is the frame of the thread that
\* pushed it; get_current_cs() gives the calling thread the last entry,
\* whichever thread pushed it, and a block exit pops the last entry,
\* whichever thread pushed it. So a thread inside its own block can get the
\* other thread's frame, and its exit can pop the other thread's frame (the
\* witness is such a state).
C25_SharedStackNotThreadSafe ==
    /\ _current_cs =
           <<WORLD_CS>> \o [i \in 1..Len(blocks) |-> threads[blocks[i]].cs]
    /\ (op = "get_current_cs") =>
           /\ blocks # <<>>
           /\ threads[args.thread].seen = threads[blocks[Len(blocks)]].cs
    /\ \A t \in Threads :
           (threads[t].pc \in {"inside", "read"}) =>
               Len(_current_cs) > 1

\* thread 1 got thread 2's frame from get_current_cs() inside its own
\* block, and its exit popped thread 2's frame: thread 2 is still inside its
\* block and the list holds thread 1's frame
C25_Witness ==
    /\ threads # <<>>
    /\ threads[1].pc = "done" /\ threads[2].pc = "inside"
    /\ blocks = <<1>>
    /\ threads[1].cs # threads[2].cs
    /\ threads[1].seen = threads[2].cs
    /\ _current_cs = <<WORLD_CS, threads[1].cs>>

\* C26: revolve_rsolid resolves its axis and origin arguments through the
\* current frame and uses them for the revolution: the kernel's revolve
\* call is handed the resolved origin and the resolved axis, so that two
\* calls that differ only in axis, or only in origin, hand the kernel
\* different revolution axes.
C26_RevolveUsesAxisAndOrigin ==
    (op = "revolve_rsolid" /\ err = "none") =>
        \E i \in 1..Len(kernel) :
            /\ kernel[i].fn = "cq.Workplane.revolve"
            /\ kernel[i].points =
                   <<transform_point(Current, ToFloat(args.center))>>
            /\ kernel[i].vectors =
                   <<VecSub(transform_point(Current, ToFloat(args.axis)),
                            Current.origin)>>

\* world coordinates of point j of line k of the Sketch just made
SketchPoint(k, j) ==
    LET point == pointObjs[args.lines[k][j]].point
    IN  transform_point(point.cs, point.local_coords)

\* C27: every Sketch that is constructed is a closed contour: an empty list
\* of lines is rejected, and in a Sketch that was made the last point of
\* each line is, in world coordinates, the first point of the next line, and
\* the last point of the last line is the first point of the first line.
C27_SketchIsClosedChain ==
    (op = "Sketch") =>
        /\ args.lines = <<>> => err = "ValueError"
        /\ err = "none" =>
               \A k \in 1..Len(args.lines) :
                   SketchPoint(k, 2) =
                       SketchPoint(IF k = Len(args.lines) THEN 1 ELSE k + 1, 1)

\* the frame that was current when Point number i was made
MadeIn(i) == pointObjs[i].made_in[Len(pointObjs[i].made_in)]

\* C28: a Point made without an explicit cs is bound to the frame that was
\* current when it was made: whatever blocks are entered and left
\* afterwards, the block it was made in included, its global_coords are its
\* local coordinates resolved through that frame.
C28_PointKeepsItsFrame ==
    \A i \in 1..Len(pointObjs) :
        ~pointObjs[i].explicit =>
            Point_global_coords(_current_cs, pointObjs[i].point) =
                transform_point(MadeIn(i), pointObjs[i].point.local_coords)

\* a Point was made inside a block, that block was left and another block
\* was entered, in whose frame the Point's local coordinates would give
\* other global coordinates
C28_Witness ==
    /\ op = "__enter__"
    /\ Len(pointObjs) >= 1
    /\ ~pointObjs[1].explicit
    /\ Len(pointObjs[1].made_in) = 2
    /\ MadeIn(1) # Current
    /\ Point_global_coords(_current_cs, pointObjs[1].point) #
           transform_point(Current, pointObjs[1].point.local_coords)

\* C29: when constructing a LocalCoordinateSystem fails, the frame stack is
\* as it was before: the frame is built and checked in the constructor,
\* nothing is pushed before __enter__, and __enter__ is not reached.
C29_FailedConstructionLeavesStack ==
    [][ (op' = "LocalCoordinateSystem" /\ err' = "ValueError") =>
            (_current_cs' = _current_cs /\ blocks' = blocks) ]_vars

\* inside a block, a `with LocalCoordinateSystem(...)` with parallel axes
\* has just raised
C29_Witness ==
    /\ op = "LocalCoordinateSystem" /\ err = "ValueError"
    /\ args.x_axis = <<1, 0, 0>> /\ args.y_axis = <<2, 0, 0>>
    /\ Len(blocks) = 1 /\ Len(_current_cs) = 2

\* C30: Body ids are unique and strictly increasing in the order of
\* creation: after any number of Body constructions no two Bodies have the
\* same id, the id of each Body is the number of Bodies made before it, and
\* Body._id_counter is the number of Bodies made.
C30_BodyIdsUnique ==
    /\ _id_counter = Len(bodies)
    /\ \A i \in 1..Len(bodies) : bodies[i].id = i - 1
    /\ \A i \in 1..Len(bodies) : \A j \in 1..Len(bodies) :
           i < j => bodies[i].id < bodies[j].id

\* three Bodies were made, two of them of the same solid
C30_Witness ==
    /\ op = "Body"
    /\ Len(bodies) = 3
    /\ bodies[1].cq_solid = bodies[3].cq_solid
    /\ bodies[3].id = 2

====
